---- MODULE Spec2Model ----
(***************************************************************************)
(* Fitness Tracker: the glucose chart pipeline of the single-page app      *)
(* (aggregation of readings, correlation of events, zoom window) and the   *)
(* handlers that drive it.                                                 *)
(*                                                                         *)
(* Time is counted in minutes: the source's 60 * 1000 ms is 1 here and     *)
(* 60 * 60 * 1000 ms is MinutesPerHour.  An epoch instant is a number of   *)
(* minutes, counted from the start of day 1.                                *)
(***************************************************************************)
EXTENDS Integers, Sequences, FiniteSets, TLC

VARIABLES
    \* the app's reactive state (setup())
    events, loading, error, currentDate, chartInstance,
    timeThreshold, zoomLevel, zoomWindowStart, fullDataRange,
    \* events fetches awaiting their response, per requested date
    inflight,
    \* groupGlucoseReadings applied to drawn inputs
    aggPc, aggReadings, aggThresholdMs, aggGroups, aggGrouped,
    \* currentTrend applied to drawn readings
    trendPc, trendReadings, trendSorted, trendResult,
    \* findMatchingType applied to drawn labels
    matchPc, matchParts, matchInput, matchResult,
    \* the weight entry form (setup())
    weightText, weightItems, unmatchedBlocks,
    \* groupedBodyStats applied to drawn records
    gridPc, gridFromDate, gridStats, gridResult,
    \* one event parsed on two machines
    normPc, normEvent, normOffsets, normFields,
    \* the auto-refresh: its flag, whether a timer handle is stored, and the
    \* interval timers that are running
    isAutoRefreshing, autoRefreshInterval, timers,
    \* the section on display and the authentication (setup()); logins is
    \* the number of login requests awaiting their response
    currentSection, authToken, showLoginModal, loginError, logins,
    \* the body stats (setup()) and the body stats fetches awaiting their
    \* response, per requested start day
    bodyStats, bodyStatsFromDate, bodyStatsLoading, bodyStatsError,
    bodyInflight,
    \* the pushes awaiting their response: the payload sent, and the text
    \* of the textarea when it was sent
    pushes

appVars == <<events, loading, error, currentDate, chartInstance,
             timeThreshold, zoomLevel, zoomWindowStart, fullDataRange,
             inflight>>
aggVars == <<aggPc, aggReadings, aggThresholdMs, aggGroups, aggGrouped>>
trendVars == <<trendPc, trendReadings, trendSorted, trendResult>>
\* the variables of the functions exercised on their own
matchVars == <<matchPc, matchParts, matchInput, matchResult>>
gridVars == <<gridPc, gridFromDate, gridStats, gridResult>>
normVars == <<normPc, normEvent, normOffsets, normFields>>
toolVars == <<aggVars, trendVars, matchVars, gridVars, normVars>>
weightVars == <<weightText, weightItems, unmatchedBlocks>>
\* what the handlers of the glucose chart leave alone
refreshVars == <<isAutoRefreshing, autoRefreshInterval, timers>>
authVars == <<currentSection, authToken, showLoginModal, loginError, logins>>
bodyVars == <<bodyStats, bodyStatsFromDate, bodyStatsLoading, bodyStatsError,
              bodyInflight>>
pageVars == <<authVars, bodyVars, pushes>>
restVars == <<toolVars, weightVars, refreshVars, pageVars>>
vars == <<appVars, restVars>>

----------------------------------------------------------------------------
(* Bounds *)

\* days the date pager can reach (1 .. NumDays)
NumDays == 2
\* events fetches that may be outstanding together
MaxInFlight == 1
\* length of the reading sequences drawn for groupGlucoseReadings
MaxReadings == 3
\* length of the reading sequences drawn for currentTrend
MaxTrendReadings == 3
\* items the weight entry form may list
MaxWeightItems == 2
\* length of the record lists drawn for groupedBodyStats
MaxRecords == 2
\* requests of fetchEvents that may be awaiting their response when the
\* fetches are studied alone
MaxFetches == 2
\* requests of fetchBodyStats that may be awaiting their response
MaxBodyFetches == 2
\* requests of login that may be awaiting their response
MaxLogins == 2
\* requests of pushWeightItems that may be awaiting their response
MaxPushes == 1

(* Program constants *)

MinutesPerHour == 60
MinutesPerDay == 1440
\* minutes the machine's local time is behind UTC: "already local time (Mexico)"
TzOffset == 6 * MinutesPerHour
\* parseFloat of a text with no leading number
NaN == 0 - 1
\* value of "no chart" / "no error"
Null == [null |-> TRUE]
\* the y used for a marker when no glucose point is found
FallbackY == 40

Thresholds == {0, 30, 60}
ZoomLevels == {"4h", "12h", "all"}
Days == 1 .. NumDays
Today == NumDays

----------------------------------------------------------------------------
(* Generic helpers *)

Max(a, b) == IF a >= b THEN a ELSE b
Min(a, b) == IF a <= b THEN a ELSE b
Abs(a) == IF a >= 0 THEN a ELSE 0 - a

RECURSIVE SeqMin(_)
SeqMin(s) == IF Len(s) = 1 THEN s[1] ELSE Min(s[1], SeqMin(Tail(s)))

RECURSIVE SeqMax(_)
SeqMax(s) == IF Len(s) = 1 THEN s[1] ELSE Max(s[1], SeqMax(Tail(s)))

\* Array.prototype.sort((a, b) => a.timestamp - b.timestamp): stable
RECURSIVE InsertByTimestamp(_, _)
InsertByTimestamp(sorted, r) ==
    IF sorted = <<>> THEN <<r>>
    ELSE IF sorted[Len(sorted)].timestamp <= r.timestamp THEN Append(sorted, r)
         ELSE Append(InsertByTimestamp(SubSeq(sorted, 1, Len(sorted) - 1), r),
                     sorted[Len(sorted)])

RECURSIVE SortByTimestamp(_)
SortByTimestamp(s) ==
    IF s = <<>> THEN <<>>
    ELSE InsertByTimestamp(SortByTimestamp(SubSeq(s, 1, Len(s) - 1)), s[Len(s)])

----------------------------------------------------------------------------
(* Wire values *)

\* A wire timestamp "YYYY-MM-DDTHH:MM:SS.000Z" is the wall-clock minute it
\* spells and whether it still carries the designator.
WireTimestamp(day, minute) == [wall |-> (day - 1) * MinutesPerDay + minute, z |-> TRUE]

\* mutant of StripZ: the designator stays
StripZ_Kept(ts) == ts

\* timestamp.replace('Z', '')
StripZ(ts) == [ts EXCEPT !.z = FALSE]

\* new Date(str).getTime() on a machine whose local clock is offset minutes
\* behind UTC: with the designator the fields are UTC, without it they are
\* local wall-clock fields
NewDateAt(ts, offset) == IF ts.z THEN ts.wall ELSE ts.wall + offset

\* new Date(str).getTime() on the machine of the page
NewDate(ts) == NewDateAt(ts, TzOffset)

\* the date, hours and minutes a Date shows on a machine whose local clock is
\* offset minutes behind UTC
LocalFields(time, offset) ==
    [date |-> (time - offset) \div MinutesPerDay + 1,
     hours |-> ((time - offset) % MinutesPerDay) \div MinutesPerHour,
     minutes |-> (time - offset) % MinutesPerHour]

\* A reading's text is a sequence of characters: 0..9 are the digits and
\* NonDigit is any other character.
NonDigit == 10

RECURSIVE ParseDigits(_, _)
ParseDigits(s, acc) ==
    IF s = <<>> \/ s[1] = NonDigit THEN acc
    ELSE ParseDigits(Tail(s), acc * 10 + s[1])

\* parseFloat(desc): the leading number, NaN when there is none
ParseFloat(desc) ==
    IF desc = <<>> \/ desc[1] = NonDigit THEN NaN ELSE ParseDigits(desc, 0)

----------------------------------------------------------------------------
(* groupGlucoseReadings *)

\* currentGroup.reduce((sum, r) => sum + r.value, 0)
RECURSIVE SumValues(_)
SumValues(group) ==
    IF group = <<>> THEN 0
    ELSE LET rest == SumValues(Tail(group))
         IN  IF group[1].value = NaN \/ rest = NaN THEN NaN
             ELSE group[1].value + rest

\* mutant of ToFixed0: the fraction dropped
ToFixed0_Truncated(sum, n) ==
    IF sum = NaN THEN NaN ELSE sum \div n

\* (sum / n).toFixed(0): the nearest integer, the larger one on a tie
ToFixed0(sum, n) ==
    IF sum = NaN THEN NaN ELSE (2 * sum + n) \div (2 * n)

\* grouped.push({ value: avgValue.toFixed(0), timestamp: currentGroup[0].timestamp })
GroupPoint(currentGroup) ==
    [value |-> ToFixed0(SumValues(currentGroup), Len(currentGroup)),
     timestamp |-> currentGroup[1].timestamp]

\* mutants of JoinsGroup: the gap measured from the previous reading, and a
\* strict comparison
JoinsGroup_FromPrevious(currentGroup, currentReading, groupThresholdMs) ==
    currentReading.timestamp - currentGroup[Len(currentGroup)].timestamp
        <= groupThresholdMs

JoinsGroup_Strict(currentGroup, currentReading, groupThresholdMs) ==
    currentReading.timestamp - currentGroup[1].timestamp < groupThresholdMs

\* timeDiff <= groupThresholdMs, timeDiff measured from the group's first reading
JoinsGroup(currentGroup, currentReading, groupThresholdMs) ==
    currentReading.timestamp - currentGroup[1].timestamp <= groupThresholdMs

\* the for loop: closed groups so far, the open group, the next index
RECURSIVE GroupLoop(_, _, _, _, _)
GroupLoop(readings, i, closed, currentGroup, groupThresholdMs) ==
    IF i > Len(readings) THEN Append(closed, currentGroup)
    ELSE IF JoinsGroup(currentGroup, readings[i], groupThresholdMs)
         THEN GroupLoop(readings, i + 1, closed,
                        Append(currentGroup, readings[i]), groupThresholdMs)
         ELSE GroupLoop(readings, i + 1, Append(closed, currentGroup),
                        <<readings[i]>>, groupThresholdMs)

\* the member lists of the groups, in output order
ReadingGroups(readings, groupThresholdMs) ==
    IF Len(readings) = 0 THEN <<>>
    ELSE GroupLoop(readings, 2, <<>>, <<readings[1]>>, groupThresholdMs)

groupGlucoseReadings(readings, groupThresholdMs) ==
    LET gs == ReadingGroups(readings, groupThresholdMs)
    IN  [g \in 1 .. Len(gs) |-> GroupPoint(gs[g])]

----------------------------------------------------------------------------
(* updateChart *)

IsGlucose(event) == event.type = "glucose_reading"
IsOther(event) == event.type # "glucose_reading"

\* events.filter(glucose_reading).map({value, timestamp}).sort(by timestamp)
GlucoseDataAt(evts, offset) ==
    LET picked == SelectSeq(evts, IsGlucose)
    IN  SortByTimestamp([i \in 1 .. Len(picked) |->
            [value |-> ParseFloat(picked[i].desc),
             timestamp |-> NewDateAt(StripZ(picked[i].timestamp), offset)]])

GlucoseData(evts) == GlucoseDataAt(evts, TzOffset)

\* events.filter(not glucose_reading).map({...event, timestamp}).sort(by timestamp)
OtherEventsAt(evts, offset) ==
    LET picked == SelectSeq(evts, IsOther)
    IN  SortByTimestamp([i \in 1 .. Len(picked) |->
            [type |-> picked[i].type, desc |-> picked[i].desc,
             timestamp |-> NewDateAt(StripZ(picked[i].timestamp), offset)]])

OtherEvents(evts) == OtherEventsAt(evts, TzOffset)

\* parseInt(level) of the levels the template offers
ZoomHours(level) == CASE level = "4h" -> 4 [] level = "12h" -> 12

getZoomWindowSize(level, range) ==
    IF level = "all" THEN range.max - range.min
    ELSE ZoomHours(level) * MinutesPerHour

\* the scan for the closest glucose point: the index of the point kept so far
\* (0 is null) and its distance; a later point replaces it only when strictly
\* closer
RECURSIVE ClosestScan(_, _, _, _, _)
ClosestScan(grouped, eventTimestamp, i, closest, minDiff) ==
    IF i > Len(grouped) THEN closest
    ELSE LET diff == Abs(grouped[i].timestamp - eventTimestamp)
         IN  IF closest = 0 \/ diff < minDiff
             THEN ClosestScan(grouped, eventTimestamp, i + 1, i, diff)
             ELSE ClosestScan(grouped, eventTimestamp, i + 1, closest, minDiff)

\* mutant of ClosestGlucose: a point as close as the one kept replaces it
RECURSIVE ClosestScan_LastWins(_, _, _, _, _)
ClosestScan_LastWins(grouped, eventTimestamp, i, closest, minDiff) ==
    IF i > Len(grouped) THEN closest
    ELSE LET diff == Abs(grouped[i].timestamp - eventTimestamp)
         IN  IF closest = 0 \/ diff <= minDiff
             THEN ClosestScan_LastWins(grouped, eventTimestamp, i + 1, i, diff)
             ELSE ClosestScan_LastWins(grouped, eventTimestamp, i + 1, closest, minDiff)

ClosestGlucose_LastWins(grouped, eventTimestamp) ==
    ClosestScan_LastWins(grouped, eventTimestamp, 1, 0, 0)

ClosestGlucose(grouped, eventTimestamp) ==
    ClosestScan(grouped, eventTimestamp, 1, 0, 0)

\* one scatter point: x the event's instant, y the closest point's value
ScatterPoint(grouped, event) ==
    LET closest == ClosestGlucose(grouped, event.timestamp)
    IN  [x |-> event.timestamp,
         y |-> IF closest # 0 THEN grouped[closest].value ELSE FallbackY,
         event |-> event]

\* mutant of ZoomWindow: the last clamp to dataMin left out
ZoomWindow_NoLowerClamp(level, storedStart, dataMin, dataMax, windowSize) ==
    LET start0 == IF level = "all" THEN dataMin
                  ELSE IF storedStart = 0 \/ storedStart < dataMin
                       THEN Max(dataMin, dataMax - windowSize)
                       ELSE storedStart
        end0 == IF level = "all" THEN dataMax ELSE start0 + windowSize
    IN  IF end0 > dataMax
        THEN [windowStart |-> dataMax - windowSize, windowEnd |-> dataMax]
        ELSE [windowStart |-> start0, windowEnd |-> end0]

\* the zoom window: windowStart and windowEnd as the filters use them
ZoomWindow(level, storedStart, dataMin, dataMax, windowSize) ==
    LET start0 == IF level = "all" THEN dataMin
                  ELSE IF storedStart = 0 \/ storedStart < dataMin
                       THEN Max(dataMin, dataMax - windowSize)
                       ELSE storedStart
        end0 == IF level = "all" THEN dataMax ELSE start0 + windowSize
        \* Ensure window stays within data bounds
        end1 == IF end0 > dataMax THEN dataMax ELSE end0
        start1 == IF end0 > dataMax THEN dataMax - windowSize ELSE start0
    IN  IF start1 < dataMin
        THEN [windowStart |-> dataMin, windowEnd |-> dataMax]
        ELSE [windowStart |-> start1, windowEnd |-> end1]

\* mutant of InZoomWindow: the window's two ends left out
InZoomWindow_Exclusive(t, windowStart, windowEnd) ==
    t > windowStart /\ t < windowEnd

\* the test of both filters: point.x >= windowStart && point.x <= windowEnd
InZoomWindow(t, windowStart, windowEnd) ==
    t >= windowStart /\ t <= windowEnd

\* The chart drawn from the grouped points: what updateChart leaves in
\* chartInstance and in fullDataRange.
DrawChart(evts, grouped, level, storedStart) ==
    LET glucoseDataPoints ==
            [i \in 1 .. Len(grouped) |->
                [x |-> grouped[i].timestamp, y |-> grouped[i].value]]
        others == OtherEvents(evts)
        allTimestamps ==
            [i \in 1 .. Len(grouped) |-> grouped[i].timestamp]
            \o [i \in 1 .. Len(others) |-> others[i].timestamp]
        range == [min |-> SeqMin(allTimestamps), max |-> SeqMax(allTimestamps)]
        windowSize == getZoomWindowSize(level, range)
        w == ZoomWindow(level, storedStart, range.min, range.max, windowSize)
        InWindow(t) == InZoomWindow(t, w.windowStart, w.windowEnd)
        PointInWindow(p) == InWindow(p.x)
        EventInWindow(e) == InWindow(e.timestamp)
        filtered == SelectSeq(glucoseDataPoints, PointInWindow)
        shown == SelectSeq(others, EventInWindow)
        padding == 2
        minTimestamp == w.windowStart - padding
        maxTimestamp == w.windowEnd + padding
    IN  [chartInstance |->
            [windowStart |-> w.windowStart,
             windowEnd |-> w.windowEnd,
             xMin |-> minTimestamp - padding,
             xMax |-> maxTimestamp + padding,
             data |-> IF Len(filtered) > 0 THEN filtered ELSE glucoseDataPoints,
             scatterData |-> [i \in 1 .. Len(shown) |-> ScatterPoint(grouped, shown[i])]],
         fullDataRange |-> range]

\* mutant of updateChart: the early return taken only when there is nothing
\* at all to plot
updateChart_DrawsWithoutPoints(evts, threshold, level, storedStart, range) ==
    LET grouped == groupGlucoseReadings(GlucoseData(evts), threshold)
    IN  IF Len(grouped) = 0 /\ Len(OtherEvents(evts)) = 0
        THEN [chartInstance |-> Null, fullDataRange |-> range]
        ELSE DrawChart(evts, grouped, level, storedStart)

\* updateChart(): no chart, and fullDataRange untouched, when there is no
\* grouped glucose point
updateChart(evts, threshold, level, storedStart, range) ==
    LET grouped == groupGlucoseReadings(GlucoseData(evts), threshold)
    IN  IF Len(grouped) = 0
        THEN [chartInstance |-> Null, fullDataRange |-> range]
        ELSE DrawChart(evts, grouped, level, storedStart)

----------------------------------------------------------------------------
(* currentTrend *)

\* glucoseChange / timeDiffMinutes as JavaScript computes it: a quotient of
\* num by den (den >= 0), where x / 0 is Infinity, -Infinity or, for 0 / 0,
\* NaN, and NaN also comes from a reading whose value is NaN
RatePerMinute(latestReading, oldestReading) ==
    LET timeDiffMinutes == latestReading.timestamp - oldestReading.timestamp
        nanValue == latestReading.value = NaN \/ oldestReading.value = NaN
        glucoseChange == IF nanValue THEN 0
                         ELSE latestReading.value - oldestReading.value
    IN  [nan |-> nanValue \/ (glucoseChange = 0 /\ timeDiffMinutes = 0),
         num |-> glucoseChange, den |-> timeDiffMinutes]

\* ratePerMinute > k; every comparison with NaN is false
RateAbove(rate, k) ==
    /\ ~rate.nan
    /\ IF rate.den = 0 THEN rate.num > 0 ELSE rate.num > k * rate.den

\* ratePerMinute >= k
RateAtLeast(rate, k) ==
    /\ ~rate.nan
    /\ IF rate.den = 0 THEN rate.num > 0 ELSE rate.num >= k * rate.den

\* the trend level 1 .. 5 (trendArrows maps each level to its own arrow)
TrendLevel(ratePerMinute) ==
    IF RateAbove(ratePerMinute, 2) THEN 1
    ELSE IF RateAbove(ratePerMinute, 1) THEN 2
    ELSE IF RateAtLeast(ratePerMinute, 0 - 1) THEN 3
    ELSE IF RateAtLeast(ratePerMinute, 0 - 2) THEN 4
    ELSE 5

\* currentTrend over glucoseReadings (sorted by timestamp)
currentTrend(readings) ==
    IF Len(readings) = 0 THEN Null
    ELSE IF Len(readings) < 2 THEN Null
    ELSE TrendLevel(RatePerMinute(readings[Len(readings)], readings[1]))

----------------------------------------------------------------------------
(* Text *)

\* A text is a sequence of characters, each a string: a letter, a digit or a
\* sign stands for itself, "e'", "i'" and "u'" are the accented letters,
\* "bullet" is the bullet sign, "\n" the line feed and "\t" the tab.
UpperChars ==
    << "A", "B", "C", "D", "E", "F", "G", "H", "I", "J", "K", "L", "M", "N",
       "O", "P", "Q", "R", "S", "T", "U", "V", "W", "X", "Y", "Z",
       "E'", "I'", "U'" >>
LowerChars ==
    << "a", "b", "c", "d", "e", "f", "g", "h", "i", "j", "k", "l", "m", "n",
       "o", "p", "q", "r", "s", "t", "u", "v", "w", "x", "y", "z",
       "e'", "i'", "u'" >>
DigitChars == {"0", "1", "2", "3", "4", "5", "6", "7", "8", "9"}

\* \s
SpaceChars == {" ", "\t", "\n"}

\* \w: the ASCII letters, the digits and the underscore
WordChars ==
    {UpperChars[i] : i \in 1 .. 26} \cup {LowerChars[i] : i \in 1 .. 26}
        \cup DigitChars \cup {"_"}

\* String.prototype.toLowerCase
ToLowerCase(s) ==
    [i \in 1 .. Len(s) |->
        IF \E k \in 1 .. Len(UpperChars) : UpperChars[k] = s[i]
        THEN LowerChars[CHOOSE k \in 1 .. Len(UpperChars) : UpperChars[k] = s[i]]
        ELSE s[i]]

\* how many characters at the start of s are all in the class
LeadingRun(s, class) ==
    CHOOSE n \in 0 .. Len(s) :
        /\ \A i \in 1 .. n : s[i] \in class
        /\ n = Len(s) \/ s[n + 1] \notin class

\* how many characters at the end of s are all in the class
TrailingRun(s, class) ==
    CHOOSE n \in 0 .. Len(s) :
        /\ \A i \in Len(s) - n + 1 .. Len(s) : s[i] \in class
        /\ n = Len(s) \/ s[Len(s) - n] \notin class

DropFirst(s, n) == SubSeq(s, n + 1, Len(s))
DropLast(s, n) == SubSeq(s, 1, Len(s) - n)

\* String.prototype.trim
Trim(s) ==
    LET t == DropFirst(s, LeadingRun(s, SpaceChars))
    IN  DropLast(t, TrailingRun(t, SpaceChars))

\* String.prototype.includes
Includes(s, part) ==
    \E i \in 0 .. Len(s) - Len(part) : SubSeq(s, i + 1, i + Len(part)) = part

\* texts joined with a separator between them
RECURSIVE Join(_, _)
Join(texts, separator) ==
    IF texts = <<>> THEN <<>>
    ELSE IF Len(texts) = 1 THEN texts[1]
    ELSE texts[1] \o separator \o Join(Tail(texts), separator)

----------------------------------------------------------------------------
(* findMatchingType *)

weightTypes ==
    << \* Peso
       << "P", "e", "s", "o" >>,
       \* BMI
       << "B", "M", "I" >>,
       \* Grasa
       << "G", "r", "a", "s", "a" >>,
       \* Peso de grasa corporal
       << "P", "e", "s", "o", " ", "d", "e", " ", "g", "r", "a", "s", "a",
          " ", "c", "o", "r", "p", "o", "r", "a", "l" >>,
       \* Porcentaje de masa muscular esqueletica
       << "P", "o", "r", "c", "e", "n", "t", "a", "j", "e", " ", "d", "e",
          " ", "m", "a", "s", "a", " ", "m", "u", "s", "c", "u", "l", "a",
          "r", " ", "e", "s", "q", "u", "e", "l", "e'", "t", "i", "c", "a" >>,
       \* Peso de la masa muscular esqueletica
       << "P", "e", "s", "o", " ", "d", "e", " ", "l", "a", " ", "m", "a",
          "s", "a", " ", "m", "u", "s", "c", "u", "l", "a", "r", " ", "e",
          "s", "q", "u", "e", "l", "e'", "t", "i", "c", "a" >>,
       \* Musculo
       << "M", "u'", "s", "c", "u", "l", "o" >>,
       \* Peso muscular
       << "P", "e", "s", "o", " ", "m", "u", "s", "c", "u", "l", "a", "r" >>,
       \* Grasa Visceral
       << "G", "r", "a", "s", "a", " ", "V", "i", "s", "c", "e", "r", "a",
          "l" >>,
       \* Agua (%)
       << "A", "g", "u", "a", " ", "(", "%", ")" >>,
       \* Peso del agua
       << "P", "e", "s", "o", " ", "d", "e", "l", " ", "a", "g", "u", "a" >>,
       \* Metabolismo
       << "M", "e", "t", "a", "b", "o", "l", "i", "s", "m", "o" >> >>

\* weightUnits, in the order of weightTypes
weightUnits ==
    << << "K", "g" >>,
       << "I" >>,
       << "%" >>,
       << "K", "g" >>,
       << "%" >>,
       << "K", "g" >>,
       << "%" >>,
       << "K", "g" >>,
       << "%" >>,
       << "%" >>,
       << "K", "g" >>,
       << "K", "c", "a", "l", "/", "d", "i'", "a" >> >>

\* s.replace(/^[\s(bullet]+\s*/, '')
OpeningMarks == SpaceChars \cup {"(", "bullet"}
StripOpeningMarks(s) == DropFirst(s, LeadingRun(s, OpeningMarks))

\* s.replace(/\s*[\)bullet]+\s*$/, ''): the leftmost match is the run of
\* closing marks that ends the text, with the spaces on both sides of it
ClosingMarks == {")", "bullet"}
StripClosingMarks(s) ==
    LET afterMarks == TrailingRun(s, SpaceChars)
        s1 == DropLast(s, afterMarks)
        marks == TrailingRun(s1, ClosingMarks)
        s2 == DropLast(s1, marks)
    IN  IF marks = 0 THEN s ELSE DropLast(s2, TrailingRun(s2, SpaceChars))

\* s.replace(/\s*\([^)]*\)\s*$/g, ''): the text must end, spaces apart, with
\* a ")"; the match starts at the first "(" after the ")" before that one,
\* and takes the spaces in front of it
StripParenthetical(s) ==
    LET s1 == DropLast(s, TrailingRun(s, SpaceChars))
        close == Len(s1)
        earlier == {i \in 1 .. close - 1 : s1[i] = ")"}
        from == IF earlier = {} THEN 0
                ELSE CHOOSE i \in earlier : \A j \in earlier : j <= i
        opens == {i \in from + 1 .. close - 1 : s1[i] = "("}
        open == CHOOSE i \in opens : \A j \in opens : i <= j
        s2 == SubSeq(s1, 1, open - 1)
    IN  IF close = 0 \/ s1[close] # ")" \/ opens = {} THEN s
        ELSE DropLast(s2, TrailingRun(s2, SpaceChars))

\* s.replace(/\s*\/\s*\w+$/, '')
StripPerUnit(s) ==
    LET word == TrailingRun(s, WordChars)
        s1 == DropLast(s, word)
        s2 == DropLast(s1, TrailingRun(s1, SpaceChars))
        s3 == DropLast(s2, 1)
    IN  IF word = 0 \/ s2 = <<>> \/ s2[Len(s2)] # "/" THEN s
        ELSE DropLast(s3, TrailingRun(s3, SpaceChars))

\* mutant of NormalizeInput: the letter case kept
NormalizeInput_KeepCase(input) ==
    Trim(StripPerUnit(StripParenthetical(
        StripClosingMarks(StripOpeningMarks(input)))))

\* normalizedInput
NormalizeInput(input) ==
    Trim(ToLowerCase(StripPerUnit(StripParenthetical(
        StripClosingMarks(StripOpeningMarks(input))))))

\* getNormalizedTypes(): the normalized name of each type, in order
getNormalizedTypes ==
    [i \in 1 .. Len(weightTypes) |->
        Trim(ToLowerCase(StripParenthetical(weightTypes[i])))]

getCommonPrefixLength(str1, str2) ==
    LET minLen == Min(Len(str1), Len(str2))
    IN  CHOOSE i \in 0 .. minLen :
            /\ \A k \in 1 .. i : str1[k] = str2[k]
            /\ i = minLen \/ str1[i + 1] # str2[i + 1]

NormalizedPeso == << "p", "e", "s", "o" >>

\* the types that match in part: one contains the other
IsPartialMatch(normalizedInput, normalized) ==
    Includes(normalized, normalizedInput) \/ Includes(normalizedInput, normalized)

\* The score of a partial match, times the lengths of the input and of the
\* type so that the two quotients of the source are whole numbers; an empty
\* input takes part in no quotient and counts as length 1.
ScaledScore(normalizedInput, normalized) ==
    LET inputLen == Len(normalizedInput)
        typeLen == Len(normalized)
        scale == Max(inputLen, 1) * typeLen
        typeContainsInput == Includes(normalized, normalizedInput)
        inputContainsType == Includes(normalizedInput, normalized)
        commonPrefix == getCommonPrefixLength(normalizedInput, normalized)
    IN  (IF inputContainsType
         THEN 1000 * scale + 100 * typeLen * typeLen ELSE 0)
      + (IF typeContainsInput
         THEN 500 * scale - 50 * inputLen * Max(inputLen, 1) ELSE 0)
      + typeLen * 10 * scale
      + commonPrefix * 20 * scale
      - (IF normalizedInput = NormalizedPeso /\ normalized # NormalizedPeso
         THEN 5000 * scale ELSE 0)

\* a.score > b.score for the types at a and b: the scaled scores compared
\* over the common factor Max(inputLen, 1)
ScoresHigher(normalizedInput, types, a, b) ==
    ScaledScore(normalizedInput, types[a]) * Len(types[b])
        > ScaledScore(normalizedInput, types[b]) * Len(types[a])

\* mutant of BestMatch: the matches sorted lowest score first
BestMatch_LowestScore(normalizedInput, types, matches) ==
    CHOOSE a \in matches :
        \A b \in matches \ {a} :
            \/ ScoresHigher(normalizedInput, types, b, a)
            \/ ~ScoresHigher(normalizedInput, types, a, b) /\ a < b

\* sortedMatches[0]: the match of highest score, the first of them in the
\* order of weightTypes when several have it (the sort is stable)
BestMatch(normalizedInput, types, matches) ==
    CHOOSE a \in matches :
        \A b \in matches \ {a} :
            \/ ScoresHigher(normalizedInput, types, a, b)
            \/ ~ScoresHigher(normalizedInput, types, b, a) /\ a < b

NoType == 0

\* findMatchingType(input): the index of the type in weightTypes, NoType for
\* null
findMatchingType(input) ==
    LET normalizedInput == NormalizeInput(input)
        normalizedTypes == getNormalizedTypes
        exact == {i \in 1 .. Len(normalizedTypes) :
                     normalizedTypes[i] = normalizedInput}
        matches == {i \in 1 .. Len(normalizedTypes) :
                       IsPartialMatch(normalizedInput, normalizedTypes[i])}
    IN  IF exact # {}
        THEN CHOOSE i \in exact : \A j \in exact : i <= j
        ELSE IF matches = {} THEN NoType
        ELSE BestMatch(normalizedInput, normalizedTypes, matches)

----------------------------------------------------------------------------
(* parseWeightText, editWeightItem, clearWeightItems *)

Smallest(S) == CHOOSE i \in S : \A j \in S : i <= j
Largest(S) == CHOOSE i \in S : \A j \in S : j <= i

\* the line feeds in the run of spaces that follows position i
LineFeedsAfter(s, i) ==
    LET run == LeadingRun(DropFirst(s, i), SpaceChars)
    IN  {j \in i + 1 .. i + run : s[j] = "\n"}

\* text.split(/\n\s*\n/): a separator starts at the first line feed that a
\* run of spaces with a line feed in it follows, and ends at the last line
\* feed of that run
RECURSIVE SplitBlocks(_)
SplitBlocks(text) ==
    LET starts == {i \in 1 .. Len(text) :
                      text[i] = "\n" /\ LineFeedsAfter(text, i) # {}}
        first == Smallest(starts)
        last == Largest(LineFeedsAfter(text, first))
    IN  IF starts = {} THEN << text >>
        ELSE << SubSeq(text, 1, first - 1) >> \o SplitBlocks(DropFirst(text, last))

\* text.split('\n')
RECURSIVE SplitLines(_)
SplitLines(text) ==
    LET feeds == {i \in 1 .. Len(text) : text[i] = "\n"}
        first == Smallest(feeds)
    IN  IF feeds = {} THEN << text >>
        ELSE << SubSeq(text, 1, first - 1) >> \o SplitLines(DropFirst(text, first))

\* text.split(/\s+/)
RECURSIVE SplitWords(_)
SplitWords(text) ==
    LET spaces == {i \in 1 .. Len(text) : text[i] \in SpaceChars}
        first == Smallest(spaces)
        rest == DropFirst(text, first)
    IN  IF spaces = {} THEN << text >>
        ELSE << SubSeq(text, 1, first - 1) >>
                \o SplitWords(DropFirst(rest, LeadingRun(rest, SpaceChars)))

NonEmptyText(text) == text # <<>>
LongWord(word) == Len(word) >= 2

\* block.trim().split('\n').map(l => l.trim()).filter(l => l)
BlockLines(block) ==
    LET lines == SplitLines(Trim(block))
    IN  SelectSeq([i \in 1 .. Len(lines) |-> Trim(lines[i])], NonEmptyText)

\* filteredComment of the lines after the second
FilteredComment(lines) ==
    LET comment == Join(SubSeq(lines, 3, Len(lines)), << " " >>)
    IN  Join(SelectSeq(SplitWords(Trim(comment)), LongWord), << " " >>)

\* the item or the text pushed for a block of two lines or more
ClassifiedBlock(block, lines, matchedType) ==
    IF matchedType # NoType
    THEN [to |-> "matched",
          item |-> [type |-> matchedType, value |-> lines[2],
                    comment |-> FilteredComment(lines)]]
    ELSE [to |-> "unmatched", text |-> Trim(block)]

\* the body of the forEach, once the lines of the block are known
ParsedLines(block, lines) ==
    IF Len(lines) >= 2
    THEN ClassifiedBlock(block, lines, findMatchingType(lines[1]))
    ELSE [to |-> "nothing"]

\* what the forEach of parseWeightText does with one block: an item pushed
\* to matched, a text pushed to unmatched, or nothing (fewer than 2 lines)
ParsedBlock(block) == ParsedLines(block, BlockLines(block))

IsMatchedBlock(parsed) == parsed.to = "matched"
IsUnmatchedBlock(parsed) == parsed.to = "unmatched"

ParsedBlocks(blocks) == [i \in 1 .. Len(blocks) |-> ParsedBlock(blocks[i])]
PushedItems(parsed) == [i \in 1 .. Len(parsed) |-> parsed[i].item]
PushedTexts(parsed) == [i \in 1 .. Len(parsed) |-> parsed[i].text]

\* the matched and unmatched arrays after the forEach
PushedArrays(parsed) ==
    [matched |-> PushedItems(SelectSeq(parsed, IsMatchedBlock)),
     unmatched |-> PushedTexts(SelectSeq(parsed, IsUnmatchedBlock))]

\* the matched and unmatched arrays parseWeightText builds from a text
ParsedText(text) == PushedArrays(ParsedBlocks(SplitBlocks(text)))

BlankLine == << "\n", "\n" >>

\* `${item.type}\n${item.value}\n${item.comment}`.trim()
ItemText(item) ==
    Trim(weightTypes[item.type] \o << "\n" >> \o item.value
            \o << "\n" >> \o item.comment)

\* mutant of RemoveAt: the first item removed whatever the index
RemoveAt_First(items, index) == Tail(items)

\* weightItems.filter((_, i) => i !== index), for an index counted from 1
RemoveAt(items, index) ==
    SubSeq(items, 1, index - 1) \o SubSeq(items, index + 1, Len(items))

----------------------------------------------------------------------------
(* groupedBodyStats *)

\* The body stats live in one calendar year; their instants are minutes
\* counted from 1 January 00:00 UTC of that year.
CalendarYear == 2026
MonthLengths == << 31, 28, 31, 30, 31, 30, 31, 31, 30, 31, 30, 31 >>

RECURSIVE DaysBefore(_)
DaysBefore(month) ==
    IF month = 1 THEN 0 ELSE DaysBefore(month - 1) + MonthLengths[month - 1]

\* getUTCMonth() + 1
UTCMonth(time) ==
    CHOOSE month \in 1 .. 12 :
        /\ DaysBefore(month) <= time \div MinutesPerDay
        /\ time \div MinutesPerDay < DaysBefore(month) + MonthLengths[month]

\* getUTCDate()
UTCDate(time) == time \div MinutesPerDay - DaysBefore(UTCMonth(time)) + 1

\* mutant of DateKey: the day of the month of the local clock
DateKey_Local(time) ==
    << CalendarYear, UTCMonth(time - TzOffset), UTCDate(time - TzOffset) >>

\* getUTCFullYear() + '-' + month padded + '-' + day padded
DateKey(time) == << CalendarYear, UTCMonth(time), UTCDate(time) >>

\* new Date(fromDate + 'T00:00:00Z') for a fromDate <<year, month, day>>
StartDate(fromDate) ==
    (DaysBefore(fromDate[2]) + fromDate[3] - 1) * MinutesPerDay

\* date.setUTCDate(n): day n of the month of date, running over into the
\* next months when n is past the end of the month
SetUTCDate(time, n) == time + (n - UTCDate(time)) * MinutesPerDay

\* dates: the 7 dates from bodyStatsFromDate
GridDates(startDate) ==
    [i \in 1 .. 7 |-> SetUTCDate(startDate, UTCDate(startDate) + (i - 1))]

\* the records of a type kept under a date key; groups[type][dateKey] holds
\* the last of them
ItemsAt(stats, type, dateKey) ==
    {i \in 1 .. Len(stats) :
        stats[i].type = type /\ DateKey(stats[i].epoch) = dateKey}

\* a || b for texts: the empty text is falsy
OrElse(text, default) == IF text = <<>> THEN default ELSE text

GridCell(stats, date, items) ==
    IF items = {}
    THEN [date |-> date, value |-> Null, comment |-> <<>>, hasData |-> FALSE]
    ELSE [date |-> date,
          value |-> OrElse(stats[Largest(items)].value, Null),
          comment |-> OrElse(stats[Largest(items)].comment, <<>>),
          hasData |-> TRUE]

GridRow(stats, type, dates) ==
    [i \in 1 .. 7 |->
        GridCell(stats, dates[i], ItemsAt(stats, type, DateKey(dates[i])))]

\* groupedBodyStats: for each type of the records, its 7 cells
GridRows(stats, dates) ==
    [type \in {stats[i].type : i \in 1 .. Len(stats)} |->
        GridRow(stats, type, dates)]

groupedBodyStats(fromDate, stats) ==
    GridRows(stats, GridDates(StartDate(fromDate)))

----------------------------------------------------------------------------
(* The collaborator: what GET /events?date= may answer *)

Digits(n) == IF n < 10 THEN <<n>>
             ELSE IF n < 100 THEN <<n \div 10, n % 10>>
             ELSE <<n \div 100, (n \div 10) % 10, n % 10>>

Reading(day, minute, value) ==
    [type |-> "glucose_reading", desc |-> Digits(value),
     timestamp |-> WireTimestamp(day, minute)]

Note(day, minute, type, text) ==
    [type |-> type, desc |-> text, timestamp |-> WireTimestamp(day, minute)]

DataSets == {"wide", "narrow", "single", "other"}

\* the items of a day, in the order the server sends them (not sorted)
DayItems(name, day) ==
    CASE name = "wide" ->
            \* 06:00 .. 20:00; 08:00 and 08:10 group under a threshold of 30,
            \* and the food note at 08:05 is as far from one as from the other
            << Reading(day, 1200, 120), Reading(day, 360, 70),
               Note(day, 485, "food", "lunch"),
               Reading(day, 480, 90), Reading(day, 490, 97),
               Note(day, 720, "gym", "run"),
               Reading(day, 1080, 110) >>
      [] name = "narrow" ->
            \* two hours of data
            << Reading(day, 600, 100), Note(day, 660, "medicine", "pill"),
               Reading(day, 720, 130) >>
      [] name = "single" ->
            << Reading(day, 480, 85) >>
      [] name = "other" ->
            \* events but no glucose reading
            << Note(day, 480, "food", "lunch") >>

----------------------------------------------------------------------------
(* The app *)

NoError == "null"
FetchFailed == "Failed to fetch events"

\* the app right after mount: onMounted has called fetchEvents(), whose
\* request for the current date is awaiting its response
AppInit ==
    /\ currentDate \in Days
    /\ events = <<>>
    /\ loading = TRUE
    /\ error = NoError
    /\ chartInstance = Null
    /\ timeThreshold = 30
    /\ zoomLevel = "all"
    /\ zoomWindowStart = 0
    /\ fullDataRange = [min |-> 0, max |-> 0]
    /\ inflight = [d \in Days |-> IF d = currentDate THEN 1 ELSE 0]

AggOff ==
    /\ aggPc = "off"
    /\ aggReadings = <<>>
    /\ aggThresholdMs = 0
    /\ aggGroups = <<>>
    /\ aggGrouped = <<>>

TrendOff ==
    /\ trendPc = "off"
    /\ trendReadings = <<>>
    /\ trendSorted = <<>>
    /\ trendResult = Null

MatchOff ==
    /\ matchPc = "off"
    /\ matchParts = <<>>
    /\ matchInput = <<>>
    /\ matchResult = NoType

GridOff ==
    /\ gridPc = "off"
    /\ gridFromDate = <<>>
    /\ gridStats = <<>>
    /\ gridResult = <<>>

NormOff ==
    /\ normPc = "off"
    /\ normEvent = <<>>
    /\ normOffsets = <<>>
    /\ normFields = <<>>

ToolsOff == AggOff /\ TrendOff /\ MatchOff /\ GridOff /\ NormOff

\* the weight entry form as setup() creates it
WeightInit ==
    /\ weightText = <<>>
    /\ weightItems = <<>>
    /\ unmatchedBlocks = <<>>

\* the auto-refresh as setup() creates it
RefreshInit ==
    /\ isAutoRefreshing = FALSE
    /\ autoRefreshInterval = Null
    /\ timers = 0

NoToken == ""
NoLoginError == ""
NoBodyStatsError == "null"
BodyStatsFailed == "Failed to fetch body stats"

\* the start days the date input of the body stats is set to
FromDates == { << CalendarYear, 1, 26 >>, << CalendarYear, 2, 23 >> }

\* getPreviousMonday() on the day the page is opened
PreviousMonday == << CalendarYear, 2, 23 >>

\* the sections, the authentication, the body stats and the pushes as
\* setup() creates them, with no token in localStorage
PageInit ==
    /\ currentSection = "glucose"
    /\ authToken = NoToken
    /\ showLoginModal = FALSE
    /\ loginError = NoLoginError
    /\ logins = 0
    /\ bodyStats = <<>>
    /\ bodyStatsFromDate = PreviousMonday
    /\ bodyStatsLoading = FALSE
    /\ bodyStatsError = NoBodyStatsError
    /\ bodyInflight = [date \in FromDates |-> 0]
    /\ pushes = <<>>

Init == AppInit /\ ToolsOff /\ WeightInit /\ RefreshInit /\ PageInit

RECURSIVE SumOver(_, _)
SumOver(f, S) ==
    IF S = {} THEN 0
    ELSE LET d == CHOOSE x \in S : TRUE IN f[d] + SumOver(f, S \ {d})

Outstanding == SumOver(inflight, Days)

\* fetchEvents() up to its await: the request for `date` leaves; cap bounds
\* the requests that may be awaiting their response
FetchEventsUpTo(date, cap) ==
    /\ Outstanding < cap
    /\ loading' = TRUE
    /\ error' = NoError
    /\ events' = <<>>
    /\ chartInstance' = Null
    /\ inflight' = [inflight EXCEPT ![date] = @ + 1]
    /\ UNCHANGED <<timeThreshold, zoomLevel, zoomWindowStart, fullDataRange>>

FetchEvents(date) == FetchEventsUpTo(date, MaxInFlight)

\* previousDay(), then watch(currentDate)
PreviousDayUpTo(cap) ==
    /\ currentDate > 1
    /\ currentDate' = currentDate - 1
    /\ FetchEventsUpTo(currentDate', cap)
    /\ UNCHANGED restVars

PreviousDay == PreviousDayUpTo(MaxInFlight)

\* nextDay(), then watch(currentDate)
NextDayUpTo(cap) ==
    /\ currentDate < NumDays
    /\ currentDate' = currentDate + 1
    /\ FetchEventsUpTo(currentDate', cap)
    /\ UNCHANGED restVars

NextDay == NextDayUpTo(MaxInFlight)

\* goToToday(), then watch(currentDate): a new Date object always triggers it
GoToTodayUpTo(cap) ==
    /\ currentDate' = Today
    /\ FetchEventsUpTo(currentDate', cap)
    /\ UNCHANGED restVars

GoToToday == GoToTodayUpTo(MaxInFlight)

ReloadDataUpTo(cap) ==
    /\ FetchEventsUpTo(currentDate, cap)
    /\ UNCHANGED <<currentDate, restVars>>

ReloadData == ReloadDataUpTo(MaxInFlight)

\* what setInterval returns
TimerHandle == [timer |-> TRUE]

\* mutant of toggleAutoRefresh: toggling off forgets the handle without
\* clearing its timer
toggleAutoRefresh_TimerKept ==
    /\ isAutoRefreshing' = ~isAutoRefreshing
    /\ IF isAutoRefreshing'
       THEN /\ autoRefreshInterval' = TimerHandle
            /\ timers' = timers + 1
       ELSE /\ autoRefreshInterval' = Null
            /\ UNCHANGED timers
    /\ UNCHANGED <<appVars, toolVars, weightVars, pageVars>>

\* toggleAutoRefresh(): setInterval starts a timer and its handle is stored,
\* or the timer of the stored handle is cleared
toggleAutoRefresh ==
    /\ isAutoRefreshing' = ~isAutoRefreshing
    /\ IF isAutoRefreshing'
       THEN /\ autoRefreshInterval' = TimerHandle
            /\ timers' = timers + 1
       ELSE IF autoRefreshInterval # Null
            THEN /\ autoRefreshInterval' = Null
                 /\ timers' = timers - 1
            ELSE UNCHANGED <<autoRefreshInterval, timers>>
    /\ UNCHANGED <<appVars, toolVars, weightVars, pageVars>>

\* a running timer fires after 60000 ms: fetchEvents()
AutoRefreshTick(cap) ==
    /\ timers > 0
    /\ FetchEventsUpTo(currentDate, cap)
    /\ UNCHANGED <<currentDate, restVars>>

\* fetchEvents() from its await on: the response to a request for `date`
\* arrives, events and error are set, and the finally block redraws
FetchEventsDone(date, ok, name) ==
    /\ inflight[date] > 0
    /\ inflight' = [inflight EXCEPT ![date] = @ - 1]
    /\ events' = IF ok THEN DayItems(name, date) ELSE <<>>
    /\ error' = IF ok THEN error ELSE FetchFailed
    /\ loading' = FALSE
    /\ LET drawn == updateChart(events', timeThreshold, zoomLevel,
                                zoomWindowStart, fullDataRange)
       IN  /\ chartInstance' = drawn.chartInstance
           /\ fullDataRange' = drawn.fullDataRange
    /\ UNCHANGED <<currentDate, timeThreshold, zoomLevel, zoomWindowStart, restVars>>

\* setThreshold(value), then watch(timeThreshold) when the value changed
SetThreshold(value) ==
    /\ timeThreshold' = value
    /\ LET drawn == updateChart(events, value, zoomLevel, zoomWindowStart,
                                fullDataRange)
       IN  IF value # timeThreshold
           THEN /\ chartInstance' = drawn.chartInstance
                /\ fullDataRange' = drawn.fullDataRange
           ELSE UNCHANGED <<chartInstance, fullDataRange>>
    /\ UNCHANGED <<events, loading, error, currentDate, zoomLevel,
                   zoomWindowStart, inflight, restVars>>

\* mutant of ZoomStartFor: always the start of the range
ZoomStartFor_FromMin(level, range) ==
    IF level = "all" THEN 0 ELSE range.min

\* the window start setZoomLevel stores
ZoomStartFor(level, range) ==
    IF level = "all" THEN 0
    ELSE LET windowSize == ZoomHours(level) * MinutesPerHour
             dataRange == range.max - range.min
         IN  IF dataRange <= windowSize THEN range.min
             ELSE range.max - windowSize

SetZoomLevel(level) ==
    /\ zoomLevel' = level
    /\ zoomWindowStart' = ZoomStartFor(level, fullDataRange)
    /\ LET drawn == updateChart(events, timeThreshold, level,
                                zoomWindowStart', fullDataRange)
       IN  /\ chartInstance' = drawn.chartInstance
           /\ fullDataRange' = drawn.fullDataRange
    /\ UNCHANGED <<events, loading, error, currentDate, timeThreshold,
                   inflight, restVars>>

\* mutant of PannedStart: the step taken without clamping
PannedStart_Unclamped(direction, level, storedStart, range) ==
    LET windowSize == getZoomWindowSize(level, range)
        step == windowSize \div 2
    IN  IF direction = "left" THEN storedStart - step ELSE storedStart + step

\* the window start moveZoomWindow stores
PannedStart(direction, level, storedStart, range) ==
    LET windowSize == getZoomWindowSize(level, range)
        step == windowSize \div 2
    IN  IF direction = "left"
        THEN Max(range.min, storedStart - step)
        ELSE Min(range.max - windowSize, storedStart + step)

MoveZoomWindow(direction) ==
    /\ IF zoomLevel = "all" \/ fullDataRange.max - fullDataRange.min <= 0
       THEN UNCHANGED <<zoomWindowStart, chartInstance, fullDataRange>>
       ELSE /\ zoomWindowStart' =
                   PannedStart(direction, zoomLevel, zoomWindowStart, fullDataRange)
            /\ LET drawn == updateChart(events, timeThreshold, zoomLevel,
                                        zoomWindowStart', fullDataRange)
               IN  /\ chartInstance' = drawn.chartInstance
                   /\ fullDataRange' = drawn.fullDataRange
    /\ UNCHANGED <<events, loading, error, currentDate, timeThreshold,
                   zoomLevel, inflight, restVars>>

Next ==
    \/ PreviousDay
    \/ NextDay
    \/ GoToToday
    \/ ReloadData
    \/ \E date \in Days, ok \in BOOLEAN, name \in DataSets :
            FetchEventsDone(date, ok, name)
    \/ \E value \in Thresholds : SetThreshold(value)
    \/ \E level \in ZoomLevels : SetZoomLevel(level)
    \/ \E direction \in {"left", "right"} : MoveZoomWindow(direction)

Spec == Init /\ [][Next]_vars

----------------------------------------------------------------------------
(* groupGlucoseReadings on its own: every sorted reading sequence up to
   MaxReadings over AggTimes and AggValues, under every threshold *)

\* 05:57, 06:12, 06:20, then 30, 31, 60 and 61 minutes after 05:57
AggTimes == {357, 372, 380, 387, 388, 417, 418}
AggValues == {70, 75, 77}
AggReading == [value : AggValues, timestamp : AggTimes]

IsSorted(s) == \A i \in 1 .. Len(s) - 1 : s[i].timestamp <= s[i + 1].timestamp

SortedReadings ==
    UNION {{s \in [1 .. n -> AggReading] : IsSorted(s)} : n \in 0 .. MaxReadings}

InitAgg ==
    /\ AppInit
    /\ currentDate = Today
    /\ aggPc = "ready"
    /\ aggReadings \in SortedReadings
    /\ aggThresholdMs \in Thresholds
    /\ aggGroups = <<>>
    /\ aggGrouped = <<>>
    /\ TrendOff
    /\ MatchOff
    /\ GridOff
    /\ NormOff
    /\ WeightInit
    /\ RefreshInit
    /\ PageInit

GroupReadings ==
    /\ aggPc = "ready"
    /\ aggPc' = "done"
    /\ aggGroups' = ReadingGroups(aggReadings, aggThresholdMs)
    /\ aggGrouped' = groupGlucoseReadings(aggReadings, aggThresholdMs)
    /\ UNCHANGED <<aggReadings, aggThresholdMs, appVars, trendVars, matchVars,
                   gridVars, normVars, weightVars,
                   refreshVars, pageVars>>

NextAgg == GroupReadings

SpecAgg == InitAgg /\ [][NextAgg]_vars

----------------------------------------------------------------------------
(* The glucose events of a response, parsed and grouped as updateChart does:
   every list of up to MaxReadings glucose events over WireTimes and
   WireTexts, in any order of arrival *)

\* 05:57, 06:12, 06:40
WireTimes == {357, 372, 400}

\* "70", "81", "7x" whose leading number is 7, "x" and the empty text
WireTexts ==
    { << 7, 0 >>, << 8, 1 >>, << 7, NonDigit >>, << NonDigit >>, <<>> }

WireReadings ==
    {[type |-> "glucose_reading", desc |-> text,
      timestamp |-> WireTimestamp(Today, minute)] :
        text \in WireTexts, minute \in WireTimes}

InitWire ==
    /\ AppInit
    /\ currentDate = Today
    /\ aggPc = "ready"
    /\ aggReadings \in UNION {[1 .. n -> WireReadings] : n \in 0 .. MaxReadings}
    /\ aggThresholdMs \in Thresholds
    /\ aggGroups = <<>>
    /\ aggGrouped = <<>>
    /\ TrendOff
    /\ MatchOff
    /\ GridOff
    /\ NormOff
    /\ WeightInit
    /\ RefreshInit
    /\ PageInit

\* updateChart up to groupedGlucoseData
GroupWireReadings ==
    /\ aggPc = "ready"
    /\ aggPc' = "done"
    /\ aggGroups' = ReadingGroups(GlucoseData(aggReadings), aggThresholdMs)
    /\ aggGrouped' = groupGlucoseReadings(GlucoseData(aggReadings),
                                          aggThresholdMs)
    /\ UNCHANGED <<aggReadings, aggThresholdMs, appVars, trendVars, matchVars,
                   gridVars, normVars, weightVars,
                   refreshVars, pageVars>>

NextWire == GroupWireReadings

SpecWire == InitWire /\ [][NextWire]_vars

----------------------------------------------------------------------------
(* currentTrend on its own: every reading sequence up to MaxTrendReadings
   over TrendTimes and TrendValues, in any order of arrival *)

\* 10:00, 10:01, 10:02
TrendTimes == {600, 601, 602}
TrendValues == {100, 101, 102, 103}
TrendReading == [value : TrendValues, timestamp : TrendTimes]

TrendInputs == UNION {[1 .. n -> TrendReading] : n \in 0 .. MaxTrendReadings}

InitTrend ==
    /\ AppInit
    /\ currentDate = Today
    /\ AggOff
    /\ MatchOff
    /\ GridOff
    /\ NormOff
    /\ WeightInit
    /\ RefreshInit
    /\ PageInit
    /\ trendPc = "ready"
    /\ trendReadings \in TrendInputs
    /\ trendSorted = <<>>
    /\ trendResult = Null

\* glucoseReadings sorts the readings, currentTrend reads the sorted list
ComputeTrend ==
    /\ trendPc = "ready"
    /\ trendPc' = "done"
    /\ trendSorted' = SortByTimestamp(trendReadings)
    /\ trendResult' = currentTrend(trendSorted')
    /\ UNCHANGED <<trendReadings, appVars, aggVars, matchVars, gridVars,
                   normVars, weightVars,
                   refreshVars, pageVars>>

NextTrend == ComputeTrend

SpecTrend == InitTrend /\ [][NextTrend]_vars

----------------------------------------------------------------------------
(* findMatchingType on its own: every label made of an opening, a core and
   a closing *)

\* what may stand before the name: nothing, spaces, a bracket, a bullet
LabelOpenings ==
    { <<>>,
      << " " >>,
      << "(" >>,
      << "(", " " >>,
      << "bullet", " " >>,
      << "\t" >> }

\* names that are not the canonical spelling of a type, and no name at all
OtherCores ==
    { << "p", "e", "s", "o" >>,
      << "P", "E", "S", "O" >>,
      << "p", "E", "s", "O" >>,
      << "p", "e", "s", "o", " ", "m", "u", "s", "c", "u", "l", "a", "r" >>,
      << "G", "R", "A", "S", "A" >>,
      << "a", "g", "u", "a" >>,
      << "m", "a", "s", "a" >>,
      << "c", "o", "r", "p", "o", "r", "a", "l" >>,
      << "x", "y", "z" >>,
      <<>> }

\* what may stand after the name: nothing, spaces, marks, a unit in
\* parentheses, a rate
LabelClosings ==
    { <<>>,
      << " " >>,
      << ")" >>,
      << " ", ")" >>,
      << " ", "bullet" >>,
      << " ", "(", "K", "g", ")" >>,
      << " ", "(", "I", ")" >>,
      << " ", "(", "%", ")" >>,
      << " ", "(", "K", "c", "a", "l", "/", "d", "i'", "a", ")" >>,
      << "(", "K", "g", ")", " " >>,
      << " ", "/", " ", "d", "i", "a" >> }

LabelCores == {weightTypes[i] : i \in 1 .. Len(weightTypes)} \cup OtherCores

InitMatch ==
    /\ AppInit
    /\ currentDate = Today
    /\ AggOff
    /\ TrendOff
    /\ GridOff
    /\ NormOff
    /\ WeightInit
    /\ RefreshInit
    /\ PageInit
    /\ matchPc = "ready"
    /\ matchParts \in [opening : LabelOpenings, core : LabelCores,
                       closing : LabelClosings]
    /\ matchInput = matchParts.opening \o matchParts.core \o matchParts.closing
    /\ matchResult = NoType

FindMatchingType ==
    /\ matchPc = "ready"
    /\ matchPc' = "done"
    /\ matchResult' = findMatchingType(matchInput)
    /\ UNCHANGED <<matchParts, matchInput, appVars, aggVars, trendVars,
                   gridVars, normVars, weightVars,
                   refreshVars, pageVars>>

NextMatch == FindMatchingType

SpecMatch == InitMatch /\ [][NextMatch]_vars

----------------------------------------------------------------------------
(* The weight entry form on its own: the user types a text of up to two
   blocks, submits it, edits items and clears the form *)

\* a label and a value
BlockPeso ==
    << "P", "e", "s", "o", "\n", "7", "0" >>
\* a label with a unit, a value and a comment with a one-letter word
BlockGrasa ==
    << "G", "r", "a", "s", "a", " ", "(", "%", ")", "\n", "2", "0", "\n",
       "e", "n", " ", "a", " ", "a", "y", "u", "n", "a", "s" >>
\* a label that matches no type, and a value
BlockUnknown ==
    << "x", "y", "z", "\n", "5" >>
\* a single line
BlockOneLine ==
    << "h", "o", "l", "a" >>

TypedBlocks == {BlockPeso, BlockGrasa, BlockUnknown, BlockOneLine}

\* a blank line, a line of one space, two blank lines
TypedSeparators ==
    { << "\n", "\n" >>, << "\n", " ", "\n" >>, << "\n", "\n", "\n" >> }

\* no text, one block, or two blocks with a separator between them
TypedTexts ==
    {<<>>} \cup TypedBlocks
        \cup {a \o sep \o b : a \in TypedBlocks, sep \in TypedSeparators,
                               b \in TypedBlocks}

\* the textarea bound to weightText by v-model
TypeWeightText(text) ==
    /\ weightText' = text
    /\ UNCHANGED <<weightItems, unmatchedBlocks, appVars, toolVars, refreshVars, pageVars>>

\* the three assignments that end parseWeightText
StoreParsed(parsed) ==
    /\ Len(weightItems) + Len(parsed.matched) <= MaxWeightItems
    /\ weightItems' = weightItems \o parsed.matched
    /\ unmatchedBlocks' = parsed.unmatched
    /\ weightText' = Join(parsed.unmatched, BlankLine)
    /\ UNCHANGED <<appVars, toolVars, refreshVars, pageVars>>

parseWeightText == StoreParsed(ParsedText(weightText))

clearWeightItems ==
    /\ weightItems' = <<>>
    /\ unmatchedBlocks' = <<>>
    /\ weightText' = <<>>
    /\ UNCHANGED <<appVars, toolVars, refreshVars, pageVars>>

\* editWeightItem(index - 1): the template passes the index of a listed item
editWeightItem(index) ==
    /\ index \in 1 .. Len(weightItems)
    /\ LET text == ItemText(weightItems[index])
       IN  weightText' = IF weightText # <<>>
                         THEN weightText \o BlankLine \o text
                         ELSE text
    /\ weightItems' = RemoveAt(weightItems, index)
    /\ UNCHANGED <<unmatchedBlocks, appVars, toolVars, refreshVars, pageVars>>

InitWeight ==
    /\ AppInit
    /\ currentDate = Today
    /\ ToolsOff
    /\ WeightInit
    /\ RefreshInit
    /\ PageInit

NextWeight ==
    \/ \E text \in TypedTexts : TypeWeightText(text)
    \/ parseWeightText
    \/ clearWeightItems
    \/ \E index \in 1 .. MaxWeightItems : editWeightItem(index)

SpecWeight == InitWeight /\ [][NextWeight]_vars

----------------------------------------------------------------------------
(* The push of the classified items, with the weight section in use while a
   push awaits its response *)

\* pushWeightItems() up to its await: the Push button is in the list of the
\* items; the payload is the type, value and comment of every item
pushWeightItems(cap) ==
    /\ Len(weightItems) > 0
    /\ Len(pushes) < cap
    /\ pushes' = Append(pushes, [payload |-> weightItems,
                                 text |-> weightText])
    /\ UNCHANGED <<weightVars, authVars, bodyVars, appVars, toolVars,
                   refreshVars>>

\* pushWeightItems() from its await on: the response to the push at `index`
\* arrives; an ok response ends in clearWeightItems(), any other in an alert
PushWeightItemsDone(index, ok) ==
    /\ index \in 1 .. Len(pushes)
    /\ pushes' = RemoveAt(pushes, index)
    /\ IF ok
       THEN /\ weightItems' = <<>>
            /\ unmatchedBlocks' = <<>>
            /\ weightText' = <<>>
       ELSE UNCHANGED weightVars
    /\ UNCHANGED <<authVars, bodyVars, appVars, toolVars, refreshVars>>

\* the weight section on display, with a token held
InitPush ==
    /\ AppInit
    /\ currentDate = Today
    /\ ToolsOff
    /\ WeightInit
    /\ RefreshInit
    /\ currentSection = "weight"
    /\ authToken = "token"
    /\ showLoginModal = FALSE
    /\ loginError = NoLoginError
    /\ logins = 0
    /\ bodyStats = <<>>
    /\ bodyStatsFromDate = PreviousMonday
    /\ bodyStatsLoading = FALSE
    /\ bodyStatsError = NoBodyStatsError
    /\ bodyInflight = [date \in FromDates |-> 0]
    /\ pushes = <<>>

\* no text, or one block
PushTexts == {<<>>} \cup TypedBlocks

NextPush ==
    \/ \E text \in PushTexts : TypeWeightText(text)
    \/ parseWeightText
    \/ clearWeightItems
    \/ \E index \in 1 .. MaxWeightItems : editWeightItem(index)
    \/ pushWeightItems(MaxPushes)
    \/ \E index \in 1 .. MaxPushes, ok \in BOOLEAN :
          PushWeightItemsDone(index, ok)

SpecPush == InitPush /\ [][NextPush]_vars

----------------------------------------------------------------------------
(* groupedBodyStats on its own: every list of up to MaxRecords records over
   GridTypes, GridEpochs and GridValues, from every start day of
   GridFromDates *)

\* 26 January, and 23 February whose week runs into March
GridFromDates == { << CalendarYear, 1, 26 >>, << CalendarYear, 2, 23 >> }

GridTypes == {"Peso", "BMI"}

\* the instant of a month, a day and a minute of the day (UTC)
InstantOf(month, day, minute) ==
    (DaysBefore(month) + day - 1) * MinutesPerDay + minute

\* 25 Jan 23:30, 26 Jan 00:30, 1 Feb 23:30, 2 Feb 00:30, 1 Mar 00:30
GridEpochs ==
    { InstantOf(1, 25, 1410), InstantOf(1, 26, 30), InstantOf(2, 1, 1410),
      InstantOf(2, 2, 30), InstantOf(3, 1, 30) }

\* a value with its comment; a record may come with an empty value
GridValues ==
    { [value |-> << "7", "0" >>, comment |-> <<>>],
      [value |-> << "7", "1" >>, comment |-> << "o", "k" >>],
      [value |-> <<>>, comment |-> << "n", "a" >>] }

GridRecords ==
    {[type |-> t, epoch |-> e, value |-> v.value, comment |-> v.comment] :
        t \in GridTypes, e \in GridEpochs, v \in GridValues}

InitGrid ==
    /\ AppInit
    /\ currentDate = Today
    /\ AggOff
    /\ TrendOff
    /\ MatchOff
    /\ NormOff
    /\ WeightInit
    /\ RefreshInit
    /\ PageInit
    /\ gridPc = "ready"
    /\ gridFromDate \in GridFromDates
    /\ gridStats \in UNION {[1 .. n -> GridRecords] : n \in 0 .. MaxRecords}
    /\ gridResult = <<>>

GroupBodyStats ==
    /\ gridPc = "ready"
    /\ gridPc' = "done"
    /\ gridResult' = groupedBodyStats(gridFromDate, gridStats)
    /\ UNCHANGED <<gridFromDate, gridStats, appVars, aggVars, trendVars,
                   matchVars, normVars, weightVars,
                   refreshVars, pageVars>>

NextGrid == GroupBodyStats

SpecGrid == InitGrid /\ [][NextGrid]_vars

----------------------------------------------------------------------------
(* The parsing of one event's timestamp on two machines that differ in the
   offset of their local clock only *)

\* minutes the local clock is behind UTC: UTC+2, UTC, UTC-6, UTC-9
NormOffsets == { -120, 0, 360, 540 }

\* minutes of the day an event is written at
NormMinutes == { 0, 30, 357, 720, 1439 }

\* the type of an event and the day and the minute of the day written in its
\* timestamp
NormEvents ==
    [type : {"glucose_reading", "food"}, day : Days, minute : NormMinutes]

\* the event as the server sends it
WireEvent(e) ==
    IF e.type = "glucose_reading"
    THEN Reading(e.day, e.minute, 100)
    ELSE Note(e.day, e.minute, e.type, "lunch")

\* the instant the page holds for the event: an entry of glucoseReadings or
\* of otherEvents
NormalizedInstant(event, offset) ==
    IF IsGlucose(event)
    THEN GlucoseDataAt(<< event >>, offset)[1].timestamp
    ELSE OtherEventsAt(<< event >>, offset)[1].timestamp

InitNorm ==
    /\ AppInit
    /\ currentDate = Today
    /\ AggOff
    /\ TrendOff
    /\ MatchOff
    /\ GridOff
    /\ WeightInit
    /\ RefreshInit
    /\ PageInit
    /\ normPc = "ready"
    /\ normEvent \in NormEvents
    /\ normOffsets \in NormOffsets \X NormOffsets
    /\ normFields = <<>>

Normalize ==
    /\ normPc = "ready"
    /\ normPc' = "done"
    /\ normFields' =
          [k \in 1 .. 2 |->
              LocalFields(NormalizedInstant(WireEvent(normEvent),
                                            normOffsets[k]),
                          normOffsets[k])]
    /\ UNCHANGED <<normEvent, normOffsets, appVars, aggVars, trendVars,
                   matchVars, gridVars, weightVars,
                   refreshVars, pageVars>>

NextNorm == Normalize

SpecNorm == InitNorm /\ [][NextNorm]_vars

----------------------------------------------------------------------------
(* The sections, the authentication and the body stats fetch *)

Sections == {"glucose", "bodystats", "weight"}

\* what GET /bodyStats?from= answers for a start day: two records of its week
BodyRecords(fromDate) ==
    << [type |-> "Peso", epoch |-> StartDate(fromDate) + 30,
        value |-> << "7", "0" >>, comment |-> <<>>],
       [type |-> "BMI", epoch |-> StartDate(fromDate) + MinutesPerDay,
        value |-> << "2", "2" >>, comment |-> << "o", "k" >>] >>

BodyOutstanding == SumOver(bodyInflight, FromDates)

\* fetchBodyStats() up to its await, when `wanted`; cap bounds the requests
\* that may be awaiting their response
FetchBodyStatsWhen(wanted, fromDate, cap) ==
    IF wanted
    THEN /\ BodyOutstanding < cap
         /\ bodyStatsLoading' = TRUE
         /\ bodyStatsError' = NoBodyStatsError
         /\ bodyInflight' = [bodyInflight EXCEPT ![fromDate] = @ + 1]
         /\ UNCHANGED bodyStats
    ELSE UNCHANGED <<bodyStats, bodyStatsLoading, bodyStatsError, bodyInflight>>

\* fetchBodyStats() from its await on: the response to a request for
\* `fromDate` arrives
FetchBodyStatsDone(fromDate, ok) ==
    /\ bodyInflight[fromDate] > 0
    /\ bodyInflight' = [bodyInflight EXCEPT ![fromDate] = @ - 1]
    /\ bodyStats' = IF ok THEN BodyRecords(fromDate) ELSE <<>>
    /\ bodyStatsError' = IF ok THEN bodyStatsError ELSE BodyStatsFailed
    /\ bodyStatsLoading' = FALSE
    /\ UNCHANGED <<bodyStatsFromDate, authVars, pushes, appVars, toolVars,
                   weightVars, refreshVars>>

\* the date input bound to bodyStatsFromDate by v-model, then
\* watch(bodyStatsFromDate) when the value changed
SetBodyStatsFromDate(fromDate, cap) ==
    /\ bodyStatsFromDate' = fromDate
    /\ FetchBodyStatsWhen(fromDate # bodyStatsFromDate
                              /\ currentSection = "bodystats",
                          fromDate, cap)
    /\ UNCHANGED <<authVars, pushes, appVars, toolVars, weightVars,
                   refreshVars>>

\* mutant of setSection: the weight section opens without a token
setSection_NoGate(section, cap) ==
    /\ currentSection' = section
    /\ FetchBodyStatsWhen(section = "bodystats"
                              /\ currentSection # "bodystats",
                          bodyStatsFromDate, cap)
    /\ UNCHANGED <<authToken, showLoginModal, loginError, logins,
                   bodyStatsFromDate, pushes, appVars, toolVars, weightVars,
                   refreshVars>>

\* setSection(section), then watch(currentSection) when the section changed
setSection(section, cap) ==
    IF section = "weight" /\ authToken = NoToken
    THEN /\ showLoginModal' = TRUE
         /\ UNCHANGED <<currentSection, authToken, loginError, logins,
                        bodyVars, pushes, appVars, toolVars, weightVars,
                        refreshVars>>
    ELSE /\ currentSection' = section
         /\ FetchBodyStatsWhen(section = "bodystats"
                                   /\ currentSection # "bodystats",
                               bodyStatsFromDate, cap)
         /\ UNCHANGED <<authToken, showLoginModal, loginError, logins,
                        bodyStatsFromDate, pushes, appVars, toolVars,
                        weightVars, refreshVars>>

\* login() up to its await: the button is in the login modal
login(cap) ==
    /\ showLoginModal
    /\ logins < cap
    /\ logins' = logins + 1
    /\ UNCHANGED <<currentSection, authToken, showLoginModal, loginError,
                   bodyVars, pushes, appVars, toolVars, weightVars,
                   refreshVars>>

LoginOutcomes == {"token", "unauthorized", "no token", "failed"}

\* login() from its await on: a token, a 401, a body without token, or a
\* response that is not ok or a network error
LoginDone(outcome) ==
    /\ logins > 0
    /\ logins' = logins - 1
    /\ CASE outcome = "token" ->
               /\ authToken' = "token"
               /\ showLoginModal' = FALSE
               /\ loginError' = NoLoginError
               /\ currentSection' = "weight"
         [] outcome = "unauthorized" ->
               /\ loginError' = "Usuario o contrasena incorrectos"
               /\ UNCHANGED <<authToken, showLoginModal, currentSection>>
         [] outcome = "no token" ->
               /\ loginError' = "Error: No se recibio token"
               /\ UNCHANGED <<authToken, showLoginModal, currentSection>>
         [] outcome = "failed" ->
               /\ loginError' = "Error de conexion. Intenta nuevamente."
               /\ UNCHANGED <<authToken, showLoginModal, currentSection>>
    /\ UNCHANGED <<bodyVars, pushes, appVars, toolVars, weightVars,
                   refreshVars>>

\* the Cancelar button of the login modal
CancelLogin ==
    /\ showLoginModal
    /\ showLoginModal' = FALSE
    /\ loginError' = NoLoginError
    /\ UNCHANGED <<currentSection, authToken, logins, bodyVars, pushes,
                   appVars, toolVars, weightVars, refreshVars>>

\* logout(): the button is shown while a token is held
logout ==
    /\ authToken # NoToken
    /\ authToken' = NoToken
    /\ currentSection' = "glucose"
    /\ UNCHANGED <<showLoginModal, loginError, logins, bodyVars, pushes,
                   appVars, toolVars, weightVars, refreshVars>>

\* the page opened with or without a token in localStorage
InitAuth ==
    /\ AppInit
    /\ currentDate = Today
    /\ ToolsOff
    /\ WeightInit
    /\ RefreshInit
    /\ currentSection = "glucose"
    /\ authToken \in {NoToken, "token"}
    /\ showLoginModal = FALSE
    /\ loginError = NoLoginError
    /\ logins = 0
    /\ bodyStats = <<>>
    /\ bodyStatsFromDate = PreviousMonday
    /\ bodyStatsLoading = FALSE
    /\ bodyStatsError = NoBodyStatsError
    /\ bodyInflight = [date \in FromDates |-> 0]
    /\ pushes = <<>>

NextAuth ==
    \/ \E section \in Sections : setSection(section, MaxBodyFetches)
    \/ login(MaxLogins)
    \/ \E outcome \in LoginOutcomes : LoginDone(outcome)
    \/ CancelLogin
    \/ logout
    \/ \E fromDate \in FromDates, ok \in BOOLEAN :
          FetchBodyStatsDone(fromDate, ok)

SpecAuth == InitAuth /\ [][NextAuth]_vars

----------------------------------------------------------------------------
(* The events and the body stats fetched and their failures: the reload
   button, the section buttons and the date input of the body stats do not
   wait for a response *)

NextFailure ==
    \/ ReloadDataUpTo(MaxFetches)
    \/ \E date \in Days, ok \in BOOLEAN, name \in DataSets :
          FetchEventsDone(date, ok, name)
    \/ \E section \in Sections : setSection(section, MaxBodyFetches)
    \/ \E fromDate \in FromDates :
          SetBodyStatsFromDate(fromDate, MaxBodyFetches)
    \/ \E fromDate \in FromDates, ok \in BOOLEAN :
          FetchBodyStatsDone(fromDate, ok)

SpecFailure == Init /\ [][NextFailure]_vars

----------------------------------------------------------------------------
(* The fetches of the app alone, with up to MaxFetches requests awaiting
   their response at a time: the date buttons, the reload button and the
   auto-refresh do not wait for a response *)

NextFetch ==
    \/ PreviousDayUpTo(MaxFetches)
    \/ NextDayUpTo(MaxFetches)
    \/ GoToTodayUpTo(MaxFetches)
    \/ ReloadDataUpTo(MaxFetches)
    \/ toggleAutoRefresh
    \/ AutoRefreshTick(MaxFetches)
    \/ \E date \in Days, ok \in BOOLEAN, name \in DataSets :
          FetchEventsDone(date, ok, name)

SpecFetch == Init /\ [][NextFetch]_vars

----------------------------------------------------------------------------
(* Properties of the aggregation *)

RECURSIVE Concat(_)
Concat(ss) == IF ss = <<>> THEN <<>> ELSE ss[1] \o Concat(Tail(ss))

RECURSIVE TotalValue(_)
TotalValue(rs) == IF rs = <<>> THEN 0 ELSE rs[1].value + TotalValue(Tail(rs))

FirstOf(g) == aggGroups[g][1]
LastOf(g) == aggGroups[g][Len(aggGroups[g])]

\* C1: after grouping a sorted sequence under threshold T, every member of a
\* group is at most T after the group's first member, the first member of
\* every later group is more than T after the first member of the group
\* before it, the groups are non-empty contiguous runs whose concatenation is
\* the input, there is one output point per group, and the output is empty
\* iff the input is.
C1_GroupSpans ==
    aggPc = "done" =>
        /\ \A g \in 1 .. Len(aggGroups) :
              /\ Len(aggGroups[g]) >= 1
              /\ \A k \in 1 .. Len(aggGroups[g]) :
                    /\ aggGroups[g][k].timestamp >= FirstOf(g).timestamp
                    /\ aggGroups[g][k].timestamp - FirstOf(g).timestamp
                          <= aggThresholdMs
        /\ \A g \in 2 .. Len(aggGroups) :
              FirstOf(g).timestamp - FirstOf(g - 1).timestamp > aggThresholdMs
        /\ Concat(aggGroups) = aggReadings
        /\ Len(aggGrouped) = Len(aggGroups)
        /\ (aggGrouped = <<>>) <=> (aggReadings = <<>>)

\* a chain of three readings, each within 30 of the one before, is cut after
\* the second: the third is 31 after the first
C1_Witness ==
    /\ aggPc = "done"
    /\ aggThresholdMs = 30
    /\ Len(aggReadings) = 3
    /\ aggReadings[1].timestamp = 357
    /\ aggReadings[2].timestamp = 380
    /\ aggReadings[3].timestamp = 388
    /\ Len(aggGroups) = 2
    /\ Len(aggGroups[1]) = 2

\* C2 as claimed: the last member of a group and the first member of the
\* next group are more than T apart.
C2_BoundaryPairApart ==
    aggPc = "done" =>
        \A g \in 1 .. Len(aggGroups) - 1 :
            FirstOf(g + 1).timestamp - LastOf(g).timestamp > aggThresholdMs

\* C2 amended: the first member of the next group is strictly later than the
\* last member of the group, and further from it than T less the group's own
\* span; so the pair is more than T apart when the group's members share one
\* timestamp.
C2_BoundaryPairBeyondSpan ==
    aggPc = "done" =>
        \A g \in 1 .. Len(aggGroups) - 1 :
            LET gap == FirstOf(g + 1).timestamp - LastOf(g).timestamp
                span == LastOf(g).timestamp - FirstOf(g).timestamp
            IN  /\ gap > 0
                /\ gap + span > aggThresholdMs
                /\ span = 0 => gap > aggThresholdMs

\* two groups whose boundary pair is no more than T apart
C2_Witness ==
    /\ aggPc = "done"
    /\ Len(aggGroups) >= 2
    /\ Len(aggGroups[1]) >= 2
    /\ FirstOf(2).timestamp - LastOf(1).timestamp <= aggThresholdMs

ExampleReadings ==
    << [value |-> 70, timestamp |-> 357], [value |-> 77, timestamp |-> 372],
       [value |-> 75, timestamp |-> 380] >>

\* C3: every output point carries the timestamp of the earliest member of its
\* group and the integer nearest to the mean of the members' values (within
\* one half of it); 70@05:57, 77@06:12, 75@06:20 under 30 minutes give the
\* single point 74@05:57.
C3_MeanAtFirst ==
    aggPc = "done" =>
        /\ \A g \in 1 .. Len(aggGrouped) :
              LET n == Len(aggGroups[g])
                  total == TotalValue(aggGroups[g])
              IN  /\ aggGrouped[g].timestamp = FirstOf(g).timestamp
                  /\ \A k \in 1 .. n :
                        aggGrouped[g].timestamp <= aggGroups[g][k].timestamp
                  /\ 2 * (n * aggGrouped[g].value - total) <= n
                  /\ 2 * (total - n * aggGrouped[g].value) <= n
        /\ (aggReadings = ExampleReadings /\ aggThresholdMs = 30) =>
              aggGrouped = << [value |-> 74, timestamp |-> 357] >>

C3_Witness ==
    /\ aggPc = "done"
    /\ aggReadings = ExampleReadings
    /\ aggThresholdMs = 30
    /\ aggGrouped = << [value |-> 74, timestamp |-> 357] >>

----------------------------------------------------------------------------
(* Properties of the chart: event markers *)

\* the aggregated points of the whole day, as updateChart groups them
DayPoints == groupGlucoseReadings(GlucoseData(events), timeThreshold)

Markers == chartInstance.scatterData

Distance(point, marker) == Abs(point.timestamp - marker.x)

\* point i is the first of the points nearest to the marker
FirstNearest(points, i, marker) ==
    /\ \A j \in 1 .. Len(points) :
          Distance(points[j], marker) >= Distance(points[i], marker)
    /\ \A j \in 1 .. i - 1 :
          Distance(points[j], marker) > Distance(points[i], marker)

\* C4: in every chart, each marker's y is the value of the aggregated point of
\* the whole day nearest in time to the event, the earliest one when several
\* are equally near.
C4_NearestPoint ==
    chartInstance # Null =>
        \A k \in 1 .. Len(Markers) :
            \E i \in 1 .. Len(DayPoints) :
                /\ FirstNearest(DayPoints, i, Markers[k])
                /\ Markers[k].y = DayPoints[i].value

\* a marker as near to one point as to a later one with another value, that
\* carries the earlier point's value
C4_Witness ==
    /\ chartInstance # Null
    /\ \E k \in 1 .. Len(Markers) :
          \E i, j \in 1 .. Len(DayPoints) :
              /\ i < j
              /\ FirstNearest(DayPoints, i, Markers[k])
              /\ Distance(DayPoints[j], Markers[k]) = Distance(DayPoints[i], Markers[k])
              /\ DayPoints[i].value # DayPoints[j].value
              /\ Markers[k].y = DayPoints[i].value

HasOtherEvents == Len(OtherEvents(events)) > 0

\* C5 as claimed: with non-glucose events and no aggregated point, every event
\* is a marker at the fallback value.
C5_FallbackMarkers ==
    (HasOtherEvents /\ Len(DayPoints) = 0) =>
        /\ chartInstance # Null
        /\ Len(Markers) = Len(OtherEvents(events))
        /\ \A k \in 1 .. Len(Markers) : Markers[k].y = FallbackY

\* C5 amended: with no aggregated point there is no chart, hence no marker;
\* and every marker of a chart carries the value of an aggregated point, not
\* the fallback.
C5_NoPointsNoChart ==
    /\ (Len(DayPoints) = 0 => chartInstance = Null)
    /\ chartInstance # Null =>
          \A k \in 1 .. Len(Markers) :
              \E i \in 1 .. Len(DayPoints) : Markers[k].y = DayPoints[i].value

\* a day of events without glucose readings has been loaded: no chart
C5_Witness ==
    /\ HasOtherEvents
    /\ Len(DayPoints) = 0
    /\ ~loading
    /\ error = NoError
    /\ chartInstance = Null

----------------------------------------------------------------------------
(* Properties of the zoom window *)

\* the length of a fixed zoom level, in minutes
ZoomLength(level) == IF level = "4h" THEN 240 ELSE 720

DataSpan == fullDataRange.max - fullDataRange.min

\* C6: the window a chart is filtered by lies inside fullDataRange; under a
\* fixed zoom it is the whole range when the data span is shorter than the
\* zoom length, and as long as the zoom length otherwise.
C6_WindowInsideRange ==
    chartInstance # Null =>
        /\ fullDataRange.min <= chartInstance.windowStart
        /\ chartInstance.windowStart <= chartInstance.windowEnd
        /\ chartInstance.windowEnd <= fullDataRange.max
        /\ zoomLevel # "all" =>
              IF DataSpan < ZoomLength(zoomLevel)
              THEN /\ chartInstance.windowStart = fullDataRange.min
                   /\ chartInstance.windowEnd = fullDataRange.max
              ELSE chartInstance.windowEnd - chartInstance.windowStart
                      = ZoomLength(zoomLevel)

\* a 4h zoom over two hours of data shows exactly the two hours
C6_Witness ==
    /\ chartInstance # Null
    /\ zoomLevel = "4h"
    /\ DataSpan = 120
    /\ chartInstance.windowStart = fullDataRange.min
    /\ chartInstance.windowEnd = fullDataRange.max

\* C7: setZoomLevel('all') shows exactly fullDataRange; setZoomLevel of a
\* fixed length L stores fullDataRange.min when the range spans no more than
\* L and fullDataRange.max - L otherwise, and a chart drawn by it starts
\* there and, in the second case, ends at fullDataRange.max.
C7_SetZoomStart ==
    [][\A level \in ZoomLevels :
          SetZoomLevel(level) =>
              /\ zoomLevel' = level
              /\ (level = "all" /\ chartInstance' # Null) =>
                    /\ chartInstance'.windowStart = fullDataRange'.min
                    /\ chartInstance'.windowEnd = fullDataRange'.max
              /\ level # "all" =>
                    /\ zoomWindowStart' =
                          IF DataSpan <= ZoomLength(level)
                          THEN fullDataRange.min
                          ELSE fullDataRange.max - ZoomLength(level)
                    /\ chartInstance' # Null =>
                          /\ fullDataRange' = fullDataRange
                          /\ chartInstance'.windowStart = zoomWindowStart'
                          /\ DataSpan > ZoomLength(level) =>
                                chartInstance'.windowEnd = fullDataRange'.max
      ]_vars

\* a 4h zoom over more than four hours of data on its most recent slice
C7_Witness ==
    /\ chartInstance # Null
    /\ zoomLevel = "4h"
    /\ DataSpan > 240
    /\ zoomWindowStart = fullDataRange.max - 240
    /\ chartInstance.windowStart = zoomWindowStart
    /\ chartInstance.windowEnd = fullDataRange.max

\* C8: under a fixed zoom a pan to the left that acts leaves the stored
\* start at or above fullDataRange.min, a pan to the right that acts leaves
\* the stored start plus the zoom length at or below fullDataRange.max, and
\* a pan that does not act leaves the stored start where it was.
C8_PanStaysInside ==
    [][\A direction \in {"left", "right"} :
          (MoveZoomWindow(direction) /\ zoomLevel # "all") =>
              /\ zoomLevel' = zoomLevel
              /\ IF DataSpan > 0
                 THEN IF direction = "left"
                      THEN zoomWindowStart' >= fullDataRange'.min
                      ELSE zoomWindowStart' + ZoomLength(zoomLevel)
                              <= fullDataRange'.max
                 ELSE zoomWindowStart' = zoomWindowStart
      ]_vars

\* panned left to the start of more than four hours of data
C8_Witness ==
    /\ chartInstance # Null
    /\ zoomLevel = "4h"
    /\ DataSpan > 240
    /\ zoomWindowStart = fullDataRange.min
    /\ chartInstance.windowStart = fullDataRange.min
    /\ chartInstance.windowEnd = fullDataRange.min + 240

\* where a pan should put the visible window's start
PanTarget(direction, start, level) ==
    IF direction = "left"
    THEN Max(fullDataRange.min, start - ZoomLength(level) \div 2)
    ELSE Min(Max(fullDataRange.min, fullDataRange.max - ZoomLength(level)),
             start + ZoomLength(level) \div 2)

\* C9 as claimed: with a fixed zoom and a range of non-zero span one pan
\* moves the visible window's start by half the zoom length, or as far as the
\* range allows; with zoom 'all' or a zero span it changes nothing.
C9_PanMovesHalfWindow ==
    [][\A direction \in {"left", "right"} :
          MoveZoomWindow(direction) =>
              IF zoomLevel = "all" \/ DataSpan = 0
              THEN UNCHANGED vars
              ELSE (chartInstance # Null /\ chartInstance' # Null) =>
                      chartInstance'.windowStart =
                          PanTarget(direction, chartInstance.windowStart, zoomLevel)
      ]_vars

\* C10 as claimed: under a fixed zoom no longer than the data on display, the
\* stored window start is inside fullDataRange and so is the stored start
\* plus the zoom length.
C10_StoredStartClamped ==
    (chartInstance # Null /\ zoomLevel # "all"
        /\ DataSpan >= ZoomLength(zoomLevel)) =>
        /\ fullDataRange.min <= zoomWindowStart
        /\ zoomWindowStart + ZoomLength(zoomLevel) <= fullDataRange.max

----------------------------------------------------------------------------
(* Properties of the window filter *)

\* the aggregated points of the day as chart points
DayChartPoints ==
    [i \in 1 .. Len(DayPoints) |->
        [x |-> DayPoints[i].timestamp, y |-> DayPoints[i].value]]

\* the instants of the day's non-glucose events, in the order they are kept
DayEventTimes ==
    [i \in 1 .. Len(OtherEvents(events)) |-> OtherEvents(events)[i].timestamp]

WithinWindow(t) ==
    chartInstance.windowStart <= t /\ t <= chartInstance.windowEnd

PointWithinWindow(p) == WithinWindow(p.x)

\* C11: the line of a chart holds exactly the aggregated points whose instant
\* is inside the resolved window, ends included, or all the aggregated points
\* when none is inside; its markers are exactly the events whose instant is
\* inside the window, ends included.
C11_WindowFilter ==
    chartInstance # Null =>
        /\ chartInstance.data =
              IF SelectSeq(DayChartPoints, PointWithinWindow) = <<>>
              THEN DayChartPoints
              ELSE SelectSeq(DayChartPoints, PointWithinWindow)
        /\ [k \in 1 .. Len(Markers) |-> Markers[k].x]
              = SelectSeq(DayEventTimes, WithinWindow)

\* a window with a point on its start and an event on its end, both
\* displayed, and a point outside it that is not
C11_Witness ==
    /\ chartInstance # Null
    /\ \E i \in 1 .. Len(chartInstance.data) :
          chartInstance.data[i].x = chartInstance.windowStart
    /\ \E k \in 1 .. Len(Markers) : Markers[k].x = chartInstance.windowEnd
    /\ Len(chartInstance.data) < Len(DayChartPoints)

\* a window without any aggregated point: the whole line is displayed
C11_FallbackReached ==
    /\ chartInstance # Null
    /\ SelectSeq(DayChartPoints, PointWithinWindow) = <<>>
    /\ chartInstance.data = DayChartPoints

----------------------------------------------------------------------------
(* Properties of the trend *)

TrendFirst == trendSorted[1]
TrendLast == trendSorted[Len(trendSorted)]
TrendChange == TrendLast.value - TrendFirst.value
TrendMinutes == TrendLast.timestamp - TrendFirst.timestamp

\* the band of change / minutes for minutes > 0
TrendBand(change, minutes) ==
    IF change > 2 * minutes THEN 1
    ELSE IF change > minutes THEN 2
    ELSE IF change >= 0 - minutes THEN 3
    ELSE IF change >= 0 - 2 * minutes THEN 4
    ELSE 5

\* C12 as claimed: fewer than two samples give no trend; two or more give
\* the band of (last.value - first.value) / minutes between the first and
\* the last sample of the sorted readings, and the stable band (3) whenever
\* the first and the last value are equal.
C12_TrendBands ==
    trendPc = "done" =>
        IF Len(trendSorted) < 2
        THEN trendResult = Null
        ELSE /\ TrendMinutes > 0 =>
                    trendResult = TrendBand(TrendChange, TrendMinutes)
             /\ TrendChange = 0 => trendResult = 3

\* what holds of the code: the bands are right whenever the first and the
\* last sample are at different instants
C12_BandsWhenApart ==
    trendPc = "done" =>
        IF Len(trendSorted) < 2
        THEN trendResult = Null
        ELSE TrendMinutes > 0 =>
                trendResult = TrendBand(TrendChange, TrendMinutes)

----------------------------------------------------------------------------
(* Properties of the classifier *)

PesoSpellings ==
    { << "P", "e", "s", "o" >>,
      << "p", "e", "s", "o" >>,
      << "P", "E", "S", "O" >>,
      << "p", "E", "s", "O" >> }

\* the unit of some type, in parentheses after a space
UnitAnnotations ==
    {<< " ", "(" >> \o weightUnits[k] \o << ")" >> : k \in 1 .. Len(weightUnits)}

\* C13: a label that spells "peso" in any letter case, with any opening and
\* any closing around it, is classified as 'Peso' (the first type); and a
\* label whose normalized form is the normalized name of a type is
\* classified as that type.
C13_ExactMatch ==
    matchPc = "done" =>
        /\ matchParts.core \in PesoSpellings => matchResult = 1
        /\ \A i \in 1 .. Len(weightTypes) :
              NormalizeInput(matchInput) = getNormalizedTypes[i] =>
                  matchResult = i

\* "( PESO (Kg)" is 'Peso'
C13_Witness ==
    /\ matchPc = "done"
    /\ matchParts.opening = << "(", " " >>
    /\ matchParts.core = << "P", "E", "S", "O" >>
    /\ matchParts.closing = << " ", "(", "K", "g", ")" >>
    /\ matchResult = 1

\* C14: the canonical name of a type, alone or followed by a unit in
\* parentheses, is classified as that type.
C14_UnitStripping ==
    matchPc = "done" =>
        \A i \in 1 .. Len(weightTypes) :
            ( /\ matchParts.opening = <<>>
              /\ matchParts.core = weightTypes[i]
              /\ matchParts.closing \in UnitAnnotations \cup {<<>>} ) =>
                matchResult = i

\* "Peso muscular (Kg)" is 'Peso muscular', not 'Peso'
C14_Witness ==
    /\ matchPc = "done"
    /\ matchParts.opening = <<>>
    /\ matchParts.core = weightTypes[8]
    /\ matchParts.closing = << " ", "(", "K", "g", ")" >>
    /\ matchResult = 8
    /\ Includes(NormalizeInput(matchInput), getNormalizedTypes[1])

----------------------------------------------------------------------------
(* Properties of the weight entry form *)

\* the blocks of the pending text that hold some text, trimmed
PendingBlocks ==
    SelectSeq([i \in 1 .. Len(SplitBlocks(weightText)) |->
                  Trim(SplitBlocks(weightText)[i])], NonEmptyText)

\* a block that becomes a classified entry
BecomesEntry(block) == ParsedBlock(block).to = "matched"
StaysPending(block) == ParsedBlock(block).to # "matched"
HasTwoLines(block) == Len(BlockLines(block)) >= 2
StaysPendingOfTwoLines(block) == StaysPending(block) /\ HasTwoLines(block)

EntriesOf(blocks) == [i \in 1 .. Len(blocks) |-> ParsedBlock(blocks[i]).item]

\* C15 as claimed: classify appends one entry per matched block, in input
\* order, to the classified list, and leaves in the pending buffer exactly
\* the text of the other blocks, separated by blank lines.
C15_ClassifyRoundTrip ==
    [][parseWeightText =>
          /\ weightItems' =
                weightItems \o EntriesOf(SelectSeq(PendingBlocks, BecomesEntry))
          /\ weightText' =
                Join(SelectSeq(PendingBlocks, StaysPending), BlankLine)
      ]_vars

\* what holds of the code: the same, for the blocks of two lines or more
C15_RoundTripOfTwoLineBlocks ==
    [][parseWeightText =>
          /\ weightItems' =
                weightItems \o EntriesOf(SelectSeq(PendingBlocks, BecomesEntry))
          /\ weightText' =
                Join(SelectSeq(PendingBlocks, StaysPendingOfTwoLines), BlankLine)
      ]_vars

\* C16 as claimed: after classify, every block of the submitted text that
\* holds some text and did not become an entry is one of the unmatched
\* blocks and is in the pending buffer as it was written.
C16_NoSilentDrop ==
    [][parseWeightText =>
          \A i \in 1 .. Len(PendingBlocks) :
              StaysPending(PendingBlocks[i]) =>
                  /\ \E k \in 1 .. Len(unmatchedBlocks') :
                        unmatchedBlocks'[k] = PendingBlocks[i]
                  /\ Includes(weightText', PendingBlocks[i])
      ]_vars

\* the block an item is written as: its type, its value and, when it has
\* one, its comment, each on a line
EntryBlock(item) ==
    weightTypes[item.type] \o << "\n" >> \o item.value
        \o (IF item.comment = <<>> THEN <<>> ELSE << "\n" >> \o item.comment)

PesoItem == [type |-> 1, value |-> << "7", "0" >>, comment |-> <<>>]
GrasaItem ==
    [type |-> 3, value |-> << "2", "0" >>,
     comment |-> << "e", "n", " ", "a", "y", "u", "n", "a", "s" >>]

----------------------------------------------------------------------------
(* Properties of the weekly grid *)

\* the day, counted from 1 January, on which an instant falls in UTC
UTCDayOf(time) == time \div MinutesPerDay

\* the records of a type whose instant falls on a day
RecordsOn(type, day) ==
    {i \in 1 .. Len(gridStats) :
        gridStats[i].type = type /\ UTCDayOf(gridStats[i].epoch) = day}

\* the shape of the result: one grid for each type of the records and for no
\* other; each grid has 7 cells dated on the 7 days in a row that start at
\* the start day; a cell has data iff a record of the type falls on its day
GridShape ==
    /\ DOMAIN gridResult = {gridStats[i].type : i \in 1 .. Len(gridStats)}
    /\ \A type \in DOMAIN gridResult :
          /\ Len(gridResult[type]) = 7
          /\ \A i \in 1 .. 7 :
                LET cell == gridResult[type][i]
                    day == UTCDayOf(StartDate(gridFromDate)) + (i - 1)
                IN  /\ cell.date = day * MinutesPerDay
                    /\ cell.hasData <=> RecordsOn(type, day) # {}
                    /\ ~cell.hasData =>
                          cell.value = Null /\ cell.comment = <<>>

\* C18 as stated: the result has the shape above, and a cell with data
\* carries the value and the comment of a record of its type and day.
C18_WeeklyGrid ==
    gridPc = "done" =>
        /\ GridShape
        /\ \A type \in DOMAIN gridResult : \A i \in 1 .. 7 :
              LET cell == gridResult[type][i]
                  day == UTCDayOf(StartDate(gridFromDate)) + (i - 1)
              IN  cell.hasData =>
                      \E r \in RecordsOn(type, day) :
                          /\ cell.value = gridStats[r].value
                          /\ cell.comment = gridStats[r].comment

\* C18 amended: the result has the shape above, and a cell with data carries
\* the comment of the last record of its type and day and the value of that
\* record, or no value when the value of that record is empty.
C18_WeeklyGridOfLastRecord ==
    gridPc = "done" =>
        /\ GridShape
        /\ \A type \in DOMAIN gridResult : \A i \in 1 .. 7 :
              LET cell == gridResult[type][i]
                  day == UTCDayOf(StartDate(gridFromDate)) + (i - 1)
              IN  cell.hasData =>
                      LET last == gridStats[Largest(RecordsOn(type, day))]
                      IN  /\ cell.comment = last.comment
                          /\ last.value # <<>> => cell.value = last.value
                          /\ last.value = <<>> => cell.value = Null

\* C18 without the last clause fails on a record with an empty value
C18_EmptyValueCell ==
    /\ gridPc = "done"
    /\ \E type \in DOMAIN gridResult : \E i \in 1 .. 7 :
          /\ gridResult[type][i].hasData
          /\ gridResult[type][i].value = Null
          /\ gridResult[type][i].comment = << "n", "a" >>

\* the week of 23 February with a record of one type on 1 March at 00:30 and
\* a record of another type outside the week: the first grid has data in its
\* last cell only, the second grid has none
C18_Witness ==
    /\ gridPc = "done"
    /\ gridFromDate = << CalendarYear, 2, 23 >>
    /\ DOMAIN gridResult = GridTypes
    /\ gridResult["Peso"][7].hasData
    /\ gridResult["Peso"][7].date = InstantOf(3, 1, 0)
    /\ \A i \in 1 .. 6 : ~gridResult["Peso"][i].hasData
    /\ \A i \in 1 .. 7 : ~gridResult["BMI"][i].hasData

----------------------------------------------------------------------------
(* Properties of the time normalizer *)

\* the date, hours and minutes written in the timestamp of an event
WrittenFields(e) ==
    [date |-> e.day,
     hours |-> e.minute \div MinutesPerHour,
     minutes |-> e.minute % MinutesPerHour]

C19_GlucoseWitness ==
    /\ normPc = "done"
    /\ normEvent.type = "glucose_reading"
    /\ normOffsets = << 360, 0 >>
    /\ normFields[1] = [date |-> 1, hours |-> 0, minutes |-> 0]
    /\ normFields[2] = [date |-> 1, hours |-> 0, minutes |-> 0]

----------------------------------------------------------------------------
(* Properties of the fetches *)

\* the day written in the timestamp of an event
WrittenDay(event) == event.timestamp.wall \div MinutesPerDay + 1

\* C20: once no fetch is outstanding, the events held are events of the
\* current date: a response to a request for another date was not applied.
C20_EventsOfCurrentDate ==
    Outstanding = 0 =>
        \A i \in 1 .. Len(events) : WrittenDay(events[i]) = currentDate

\* the responses of two requests, for two dates, are awaited at once
C20_TwoDatesAwaited ==
    \A date \in Days : inflight[date] = 1

\* C21: at most one events fetch is outstanding at any time.
C21_SingleFetch == Outstanding <= 1

\* C22: while an events fetch is outstanding the held events are empty, no
\* chart exists and the loading flag is true.
C22_TornDownWhileFetching ==
    Outstanding > 0 =>
        /\ Len(events) = 0
        /\ chartInstance = Null
        /\ loading

\* a chart of loaded data is on the page while a request awaits its response
C22_ChartWhileFetching ==
    /\ Outstanding > 0
    /\ chartInstance # Null
    /\ ~loading

----------------------------------------------------------------------------
(* Properties of the auto-refresh *)

\* C30: isAutoRefreshing is true iff a timer handle is stored, at most one
\* timer is running, and a timer runs only while isAutoRefreshing is true, so
\* that after toggling off no timer starts a fetch.
C30_OneTimerWhileOn ==
    /\ isAutoRefreshing <=> autoRefreshInterval # Null
    /\ timers <= 1
    /\ timers > 0 <=> isAutoRefreshing

\* C30, step by step: a fetch started by the timer is started while
\* isAutoRefreshing is true.
C30_TickOnlyWhileOn ==
    [][AutoRefreshTick(MaxFetches) => isAutoRefreshing]_vars

\* the auto-refresh is on: its handle is stored, its timer runs, and two
\* requests await their response
C30_Witness ==
    /\ isAutoRefreshing
    /\ autoRefreshInterval = TimerHandle
    /\ timers = 1
    /\ Outstanding = 2

----------------------------------------------------------------------------
(* Properties of the rendered axis and of the stored range *)

\* C25: the time axis of a chart runs from 2 minutes before the start of the
\* resolved window to 2 minutes after its end.
C25_AxisPadding ==
    chartInstance # Null =>
        /\ chartInstance.xMin = chartInstance.windowStart - 2
        /\ chartInstance.xMax = chartInstance.windowEnd + 2

\* the axis as the code sets it: the padding is taken twice on each side
C25_AxisPaddedTwice ==
    chartInstance # Null =>
        /\ chartInstance.xMin = chartInstance.windowStart - 4
        /\ chartInstance.xMax = chartInstance.windowEnd + 4

\* the instants of the series held: of the aggregated points and of the
\* non-glucose events
HeldInstants ==
    [i \in 1 .. Len(DayPoints) |-> DayPoints[i].timestamp] \o DayEventTimes

\* C26: the stored fullDataRange is the least and the greatest instant of the
\* series held, and the range of an empty series is the initial one: it is
\* never the range of a series that is no longer held.
C26_FullRangeFresh ==
    IF Len(HeldInstants) = 0
    THEN fullDataRange = [min |-> 0, max |-> 0]
    ELSE fullDataRange =
            [min |-> SeqMin(HeldInstants), max |-> SeqMax(HeldInstants)]

\* whenever a chart is on the page the stored range is the range of the
\* series held
C26_FreshWhenCharted ==
    chartInstance # Null =>
        fullDataRange =
            [min |-> SeqMin(HeldInstants), max |-> SeqMax(HeldInstants)]

----------------------------------------------------------------------------
(* Properties of the parsing of glucose texts *)

IsWellFormed(reading) == reading.value # NaN

\* C24: no aggregated point has a non-numeric value: the value of a point is
\* the rounded mean of the well-formed samples of its group, and a group with
\* no well-formed sample gives no point.
C24_MalformedExcluded ==
    aggPc = "done" =>
        /\ Len(aggGrouped) <= Len(aggGroups)
        /\ \A i \in 1 .. Len(aggGrouped) : aggGrouped[i].value # NaN
        /\ Len(aggGrouped) = Len(aggGroups) =>
              \A g \in 1 .. Len(aggGroups) :
                  LET samples == SelectSeq(aggGroups[g], IsWellFormed)
                  IN  /\ Len(samples) > 0
                      /\ aggGrouped[g].value =
                            ToFixed0(SumValues(samples), Len(samples))

\* when every text of the response has a leading number, every point is the
\* rounded mean of its group
C24_MeanOfWellFormed ==
    (aggPc = "done" /\ \A i \in 1 .. Len(aggReadings) :
                          ParseFloat(aggReadings[i].desc) # NaN) =>
        /\ Len(aggGrouped) = Len(aggGroups)
        /\ \A g \in 1 .. Len(aggGroups) :
              /\ aggGrouped[g].value # NaN
              /\ aggGrouped[g].value =
                    ToFixed0(SumValues(aggGroups[g]), Len(aggGroups[g]))

\* a group of "70" and "x" is plotted as a point without a number
C24_NaNPoint ==
    /\ aggPc = "done"
    /\ \E g \in 1 .. Len(aggGroups) :
          /\ Len(aggGroups[g]) = 2
          /\ aggGroups[g][1].value = 70
          /\ aggGroups[g][2].value = NaN
          /\ aggGrouped[g].value = NaN

----------------------------------------------------------------------------
(* Properties of the classifier: labels without a name *)

\* C27: a label whose normalized form is the empty text is classified as no
\* type.
C27_EmptyLabelUnmatched ==
    (matchPc = "done" /\ NormalizeInput(matchInput) = <<>>) =>
        matchResult = NoType

\* the label "()" is classified as the type with the longest name
C27_EmptyLabelClassified ==
    /\ matchPc = "done"
    /\ matchInput = << "(", ")" >>
    /\ NormalizeInput(matchInput) = <<>>
    /\ matchResult # NoType
    /\ \A i \in 1 .. Len(weightTypes) :
          Len(weightTypes[i]) <= Len(weightTypes[matchResult])

----------------------------------------------------------------------------
(* Properties of the authentication *)

\* C29: the section on display is 'weight' only while a token is held;
\* setSection('weight') without a token opens the login modal and leaves the
\* section as it is; logout clears the token and shows the 'glucose' section.
C29_WeightNeedsToken ==
    /\ [](currentSection = "weight" => authToken # NoToken)
    /\ [][(setSection("weight", MaxBodyFetches) /\ authToken = NoToken) =>
              (showLoginModal' /\ currentSection' = currentSection)]_vars
    /\ [][logout => (authToken' = NoToken /\ currentSection' = "glucose")]_vars

\* a login that was answered with a token after the modal was cancelled: the
\* weight section is on display, with the token held
C29_Witness ==
    /\ currentSection = "weight"
    /\ authToken = "token"
    /\ ~showLoginModal
    /\ logins = 1

----------------------------------------------------------------------------
(* Properties of the failures of the fetches *)

\* a response to an events fetch that is not ok, or no response
EventsFetchFailed ==
    \E date \in Days, name \in DataSets : FetchEventsDone(date, FALSE, name)

\* an ok response to an events fetch: every data set holds events
EventsFetchSucceeded == Outstanding' < Outstanding /\ Len(events') > 0

BodyFetchFailed == \E fromDate \in FromDates : FetchBodyStatsDone(fromDate, FALSE)

BodyFetchSucceeded == \E fromDate \in FromDates : FetchBodyStatsDone(fromDate, TRUE)

\* C23: when an events fetch fails, after it completes the error is the
\* failure message, no events are held, loading is false and no chart
\* remains, and when an events fetch succeeds after that the error is null;
\* when a body stats fetch fails the error is its failure message, no
\* records are held and loading is false, and when a body stats fetch
\* succeeds after that the error is null.
C23_FailureSurfacedThenCleared ==
    /\ [][EventsFetchFailed =>
              /\ error' = FetchFailed
              /\ events' = <<>>
              /\ ~loading'
              /\ chartInstance' = Null]_vars
    /\ [][EventsFetchSucceeded => error' = NoError]_vars
    /\ [][BodyFetchFailed =>
              /\ bodyStatsError' = BodyStatsFailed
              /\ bodyStats' = <<>>
              /\ ~bodyStatsLoading']_vars
    /\ [][BodyFetchSucceeded => bodyStatsError' = NoBodyStatsError]_vars

\* what holds of the failures: the state after a failed fetch, and the error
\* cleared by the start of every fetch and left as it is by an ok response
C23_FailureSurfaced ==
    /\ [][EventsFetchFailed =>
              /\ error' = FetchFailed
              /\ events' = <<>>
              /\ ~loading'
              /\ chartInstance' = Null]_vars
    /\ [][Outstanding' > Outstanding => error' = NoError]_vars
    /\ [][EventsFetchSucceeded => error' = error]_vars
    /\ [][BodyFetchFailed =>
              /\ bodyStatsError' = BodyStatsFailed
              /\ bodyStats' = <<>>
              /\ ~bodyStatsLoading']_vars
    /\ [][BodyOutstanding' > BodyOutstanding =>
              bodyStatsError' = NoBodyStatsError]_vars
    /\ [][BodyFetchSucceeded => bodyStatsError' = bodyStatsError]_vars

\* events on display under the message of a failed fetch
C23_EventsUnderError ==
    /\ Len(events) > 0
    /\ error = FetchFailed
    /\ Outstanding = 0

\* body stats on display under the message of a failed fetch
C23_RecordsUnderError ==
    /\ Len(bodyStats) > 0
    /\ bodyStatsError = BodyStatsFailed
    /\ BodyOutstanding = 0

----------------------------------------------------------------------------
(* Properties of the push *)

\* the items that are not part of a payload
Unsent(items, payload) ==
    SelectSeq(items, LAMBDA item :
                  \A k \in 1 .. Len(payload) : payload[k] # item)

\* C28: when a push succeeds, every item that was not part of its payload
\* is still listed and no other item is, and a text that was entered since
\* the push left is still in the textarea; when a push fails, the items, the
\* text and the unmatched blocks are as they were.
C28_PushKeepsUnsent ==
    /\ [][\A index \in 1 .. Len(pushes) :
              PushWeightItemsDone(index, TRUE) =>
                  /\ weightItems' = Unsent(weightItems, pushes[index].payload)
                  /\ weightText # pushes[index].text =>
                         weightText' = weightText]_vars
    /\ [][\A index \in 1 .. Len(pushes) :
              PushWeightItemsDone(index, FALSE) => UNCHANGED weightVars]_vars

\* what holds of the push: a failed push changes nothing, a successful one
\* empties the items, the text and the unmatched blocks
C28_PushClearsAll ==
    /\ [][\A index \in 1 .. Len(pushes) :
              PushWeightItemsDone(index, TRUE) =>
                  /\ weightItems' = <<>>
                  /\ weightText' = <<>>
                  /\ unmatchedBlocks' = <<>>]_vars
    /\ [][\A index \in 1 .. Len(pushes) :
              PushWeightItemsDone(index, FALSE) => UNCHANGED weightVars]_vars

\* a push awaiting its response while an item that is not part of its
\* payload is listed and text is typed
C28_UnsentWhilePushing ==
    /\ Len(pushes) = 1
    /\ Unsent(weightItems, pushes[1].payload) # <<>>
    /\ weightText # <<>>
    /\ weightText # pushes[1].text

====
